---- MODULE Spec2Model ----
(***************************************************************************)
(* A model of the mozart flow editor: the Version Store REST handlers      *)
(* (flow-definitions, flows, journeys) and the graph execution engine      *)
(* (executeFlow, the Transform and Request node executors and their        *)
(* handle routers) and the Draft Reconciler (useAutoSave, the load of a    *)
(* flow, the version history).                                             *)
(*                                                                         *)
(* Specifications:                                                         *)
(*   SpecSeq    the Version Store with PUT requests that do not overlap    *)
(*   SpecStore  the Version Store with overlapping requests: every await   *)
(*              of a handler is a point where another request may run      *)
(*   SpecGraph  the editor's Graph Store with the node components'         *)
(*              effects, the HTTP calls in flight and executeFlow          *)
(*   SpecRoute  a Transform or a Request node whose results, of every kind *)
(*              of value, are routed over headers, body and default edges  *)
(*   SpecStart  a graph Start -> Transform -> Response under executeFlow   *)
(*   SpecHeaders a Request node fed through its headers port               *)
(*   SpecSave   useAutoSave in an open flow: edits, the debounce timer,    *)
(*              the manual save, PUTs that succeed or fail                 *)
(*   SpecRun    the same while the user runs the flow                      *)
(*   SpecView   the same with the version history: view, restore, leave    *)
(*   SpecLoad   the same with failed loads and reloads of the page         *)
(*   SpecSnap   a flow of two Transform nodes that is run, saved, edited    *)
(*              and viewed through its versions                            *)
(*   SpecRestore the version history with edits made in Live mode only and *)
(*              Restore requests that succeed or fail                      *)
(*   SpecEpisode one execution of an acyclic graph, nothing else clicked;  *)
(*              SpecEpisodeFair adds that effects run and calls complete   *)
(*   SpecDangling the load of a definition or draft with a dangling edge   *)
(*   SpecQuiet  a new flow (empty version 1): add a node, save, view,      *)
(*              restore, leave, every request answered                     *)
(***************************************************************************)
EXTENDS Integers, FiniteSets, Sequences, TLC

VARIABLES
  \* ---- server (MongoDB collections and the requests in flight)
  definitions,   \* the FlowDefinition collection: a set of documents
  flows,         \* the Flow collection
  journeys,      \* the Journey collection
  usedIds,       \* ObjectIds of Flow and Journey documents ever created
  nextId,        \* the next FlowDefinition document id (ObjectIds are never reused)
  req,           \* per client: the handler it is suspended in, between two awaits
  putLog,        \* per flowId: the versions the PUT handler has returned, in order
  \* ---- editor (the React state of FlowContent and of the node components)
  nodes,         \* the Graph Store's nodes: node id -> [type, data]
  edges,         \* the Graph Store's edges
  now,           \* what Date.now() returns
  pending,       \* per node: the effects whose dependencies changed and have not run yet
  loading,       \* per node: the component's loading state (its button is disabled)
  inflight,      \* per Request node: axios calls awaiting their response
  isExecuting,   \* FlowContent: the Execute button shows its spinner
  executionError,        \* FlowContent: the error banner
  isViewingOldVersion,   \* FlowContent: the read-only projection of an old version
  ran,           \* per node: the trigger effect has started a run for the node's current token
  lastEvent,     \* the last run started or ended, or the last executeFlow: who, why, its outcome
  \* ---- RequestNode (the component's own state)
  headers,       \* per node: the headers text
  useInputAsHeaders,     \* per node: the "use input" checkbox of the headers
  headersPending,        \* per node: the headersInput effect has not run yet
  sentHeaders,   \* per node: the headers of the config of the last axios call issued
  \* ---- useAutoSave and the load, view and restore state of FlowContent
  draft,         \* the localStorage item flow_<id>_draft of the open flow
  lastKnownData, \* lastKnownDataRef: the text hasDataChanged compares with
  initialLoad,   \* initialLoadRef
  isLoading,     \* isLoadingRef and isLoadingDataRef: a load is in flight
  hasUnsavedChanges,     \* hasUnsavedChangesRef
  timers,        \* the debounce timers that have not fired
  saveTimeoutRef,        \* saveTimeoutRef: the last timer started
  lastSave,      \* lastSaveRef: the text the last timer callback sent
  puts,          \* the PUT requests in flight
  loadPc,        \* fetchFlowDefinition: the await it is suspended in
  flowInitialized,       \* flowInitialized is the open flow
  original,      \* originalNodes and originalEdges
  viewingVersion,        \* viewingVersion
  savePending,   \* FlowContent has rendered and its auto-save effect has not run yet
  updatedAt,     \* per FlowDefinition document id: its updatedAt timestamp
  knownBy        \* what set lastKnownData last: a load or a view exit ("mark"), a
                 \* Restore ("restore") or scheduleAutoSave ("schedule")

serverVars == <<definitions, flows, journeys, usedIds, nextId, req, putLog>>

editorVars == <<nodes, edges, now, pending, loading, inflight, isExecuting, executionError,
                isViewingOldVersion, ran, lastEvent>>

requestVars == <<headers, useInputAsHeaders, headersPending, sentHeaders>>

\* The state of the hooks outside the Graph Store.
saveVars == <<draft, lastKnownData, initialLoad, isLoading, hasUnsavedChanges, timers,
              saveTimeoutRef, lastSave, puts, loadPc, flowInitialized, original,
              viewingVersion, savePending, updatedAt, knownBy>>

hookVars == <<requestVars, saveVars>>

vars == <<serverVars, editorVars, hookVars>>

\* ------------------------------------------------------------------ bounds

\* FlowDefinition documents created in one behaviour.
MaxDocs == 3

Clients == {"c1", "c2"}
FlowIds == {"f1", "f2"}
JourneyIds == {"j1"}
\* What a definition holds (its nodes and edges), as one opaque value; Empty is
\* nodes: [], edges: [], which POST /api/flows stores; Contents is what PUT is sent.
Empty == "empty"
Contents == {"graphA"}
Names == {"n1", "n2"}

\* ------------------------------------------------------- the collections

\* What findOne gives when no document matches (null).
NoDoc == [id |-> 0, flowId |-> "none", version |-> 0, content |-> "none"]

DefsOf(defs, flowId) == {d \in defs : d.flowId = flowId}

\* FlowDefinition.findOne({ flowId }).sort({ version: 1 }): the lowest version.
FindOneOldest(defs, flowId) ==
  IF DefsOf(defs, flowId) = {} THEN NoDoc
  ELSE CHOOSE d \in DefsOf(defs, flowId) :
         \A e \in DefsOf(defs, flowId) : d.version <= e.version

\* FlowDefinition.findOne({ flowId }).sort({ version: -1 })
FindOneLatest(defs, flowId) ==
  IF DefsOf(defs, flowId) = {} THEN NoDoc
  ELSE CHOOSE d \in DefsOf(defs, flowId) :
         \A e \in DefsOf(defs, flowId) : e.version <= d.version

\* latestDefinition ? latestDefinition.version + 1 : 1
NewVersion(latest) == IF latest # NoDoc THEN latest.version + 1 ELSE 1

\* An upsert keyed by flowId: the flow's documents are replaced by the new one.
UpsertDefinition(defs, id, flowId, content, version) ==
  {d \in defs : d.flowId # flowId}
    \cup {[id |-> id, flowId |-> flowId, version |-> version, content |-> content]}

\* FlowDefinition.create({ flowId, nodes, edges, version }): the schema has no
\* unique index, so the document is always inserted.
CreateDefinition(defs, id, flowId, content, version) ==
  defs \cup {[id |-> id, flowId |-> flowId, version |-> version, content |-> content]}

\* FlowDefinition.deleteMany({ flowId: id })
DeleteMany(defs, flowId) == {d \in defs : d.flowId # flowId}

\* FlowDefinition.find({ flowId }).sort({ version: -1 }): the versions, newest first.
RECURSIVE SortedDesc(_)
SortedDesc(ds) ==
  IF ds = {} THEN <<>>
  ELSE LET top == CHOOSE d \in ds : \A e \in ds : e.version <= d.version
       IN  <<top>> \o SortedDesc(ds \ {top})

Idle == [pc |-> "idle", flowId |-> "none", content |-> "none", version |-> 0]

AllIdle == \A c \in Clients : req[c].pc = "idle"

\* ------------------------------------------- /api/flow-definitions/[flowId]

\* GET: the latest definition, or 404.
GetDefinition(c, flowId) ==
  /\ req[c].pc = "idle"
  /\ UNCHANGED <<definitions, flows, journeys, usedIds, nextId, req, putLog>>

\* PUT, up to its first await: the latest version is read and the new one computed.
PutRead(c, flowId, content) ==
  /\ req[c].pc = "idle"
  /\ nextId <= MaxDocs
  /\ req' = [req EXCEPT ![c] = [pc |-> "putCreate", flowId |-> flowId, content |-> content,
                                 version |-> NewVersion(FindOneLatest(definitions, flowId))]]
  /\ UNCHANGED <<definitions, flows, journeys, usedIds, nextId, putLog>>

\* PUT, its second await: the document is created and returned.
PutCreate(c) ==
  /\ req[c].pc = "putCreate"
  /\ nextId <= MaxDocs
  /\ definitions' = CreateDefinition(definitions, nextId, req[c].flowId, req[c].content,
                                     req[c].version)
  /\ nextId' = nextId + 1
  /\ putLog' = [putLog EXCEPT ![req[c].flowId] = Append(@, req[c].version)]
  /\ req' = [req EXCEPT ![c] = Idle]
  /\ UNCHANGED <<flows, journeys, usedIds>>

\* PUT while no other request is in flight.
PutReadAlone(c, flowId, content) == AllIdle /\ PutRead(c, flowId, content)

\* ------------------------------------ /api/flow-definitions/[flowId]/versions

\* .limit(50)
VersionsLimit == 50

\* .sort({ version: -1 }): the orders in which the database may return the
\* documents D, those of equal version in either order.
SortVersionDescending(D) ==
  {s \in [1..Cardinality(D) -> D] :
     /\ \A i, j \in 1..Cardinality(D) : i # j => s[i] # s[j]
     /\ \A i, j \in 1..Cardinality(D) : i < j => s[i].version >= s[j].version}

\* FlowDefinition.find({ flowId }).sort({ version: -1 }).limit(50): the bodies the
\* GET may answer with.
FindVersions(defs, flowId) ==
  {SubSeq(s, 1, IF Len(s) < VersionsLimit THEN Len(s) ELSE VersionsLimit) :
     s \in SortVersionDescending(DefsOf(defs, flowId))}

ListVersions(c, flowId) ==
  /\ req[c].pc = "idle"
  /\ UNCHANGED <<definitions, flows, journeys, usedIds, nextId, req, putLog>>

\* ------------------------------------------------------------ /api/flows

\* The ids the database may give a new flow: never one that was given before, nor
\* one that a client already uses as the flowId of a definition or of a request.
FreshIds ==
  {id \in FlowIds \ usedIds :
     DefsOf(definitions, id) = {} /\ \A c \in Clients : req[c].flowId # id}

\* POST, up to the await of Flow.create: the flow exists, its definition not yet.
PostFlowCreate(c, name) ==
  /\ req[c].pc = "idle"
  /\ nextId <= MaxDocs
  /\ \E id \in FreshIds :
       /\ flows' = flows \cup {[id |-> id, name |-> name]}
       /\ usedIds' = usedIds \cup {id}
       /\ req' = [req EXCEPT ![c] = [pc |-> "postDefinition", flowId |-> id,
                                     content |-> Empty, version |-> 1]]
  /\ UNCHANGED <<definitions, journeys, nextId, putLog>>

\* POST, second await: the empty definition, version 1.
PostFlowDefinition(c) ==
  /\ req[c].pc = "postDefinition"
  /\ nextId <= MaxDocs
  /\ definitions' = CreateDefinition(definitions, nextId, req[c].flowId, Empty, 1)
  /\ nextId' = nextId + 1
  /\ req' = [req EXCEPT ![c] = Idle]
  /\ UNCHANGED <<flows, journeys, usedIds, putLog>>

\* PUT /api/flows/[id]: findByIdAndUpdate
UpdateFlow(c, id, name) ==
  /\ req[c].pc = "idle"
  /\ IF \E f \in flows : f.id = id
       THEN /\ flows' = {IF f.id = id THEN [f EXCEPT !.name = name] ELSE f : f \in flows}
       ELSE /\ flows' = flows
  /\ UNCHANGED <<definitions, journeys, usedIds, nextId, req, putLog>>

\* DELETE /api/flows/[id], up to the await of findByIdAndDelete.
DeleteFlow(c, id) ==
  /\ req[c].pc = "idle"
  /\ IF \E f \in flows : f.id = id
       THEN /\ flows' = {f \in flows : f.id # id}
            /\ req' = [req EXCEPT ![c] = [pc |-> "deleteMany", flowId |-> id,
                                          content |-> "none", version |-> 0]]
       ELSE /\ flows' = flows
            /\ req' = req
  /\ UNCHANGED <<definitions, journeys, usedIds, nextId, putLog>>

\* DELETE /api/flows/[id], second await: the flow's definitions are deleted.
DeleteFlowDefinitions(c) ==
  /\ req[c].pc = "deleteMany"
  /\ definitions' = DeleteMany(definitions, req[c].flowId)
  /\ req' = [req EXCEPT ![c] = Idle]
  /\ UNCHANGED <<flows, journeys, usedIds, nextId, putLog>>

\* ---------------------------------------------------------- /api/journeys

CreateJourney(c, name) ==
  /\ req[c].pc = "idle"
  /\ \E id \in JourneyIds \ usedIds :
       /\ journeys' = journeys \cup {[id |-> id, name |-> name]}
       /\ usedIds' = usedIds \cup {id}
  /\ UNCHANGED <<definitions, flows, nextId, req, putLog>>

UpdateJourney(c, id, name) ==
  /\ req[c].pc = "idle"
  /\ IF \E j \in journeys : j.id = id
       THEN /\ journeys' = {IF j.id = id THEN [j EXCEPT !.name = name] ELSE j : j \in journeys}
       ELSE /\ journeys' = journeys
  /\ UNCHANGED <<definitions, flows, usedIds, nextId, req, putLog>>

DeleteJourney(c, id) ==
  /\ req[c].pc = "idle"
  /\ IF \E j \in journeys : j.id = id
       THEN /\ journeys' = {j \in journeys : j.id # id}
       ELSE /\ journeys' = journeys
  /\ UNCHANGED <<definitions, flows, usedIds, nextId, req, putLog>>

\* ------------------------------------------------------ JavaScript values

\* A value is [tag, lit, fields]: tag is what the value is, lit what String(value)
\* gives, fields the own properties of a plain object as <<key, value>> pairs.
Undefined == [tag |-> "undefined", lit |-> "undefined", fields |-> {}]
Null == [tag |-> "null", lit |-> "null", fields |-> {}]
Str(s) == [tag |-> "string", lit |-> s, fields |-> {}]
Num(s) == [tag |-> "number", lit |-> s, fields |-> {}]
Bool(s) == [tag |-> "boolean", lit |-> s, fields |-> {}]
Arr(s) == [tag |-> "array", lit |-> s, fields |-> {}]
Fun == [tag |-> "function", lit |-> "() => 1", fields |-> {}]
Obj(fs) == [tag |-> "object", lit |-> "[object Object]", fields |-> fs]

\* typeof value
TypeOf(v) ==
  IF v.tag \in {"null", "array", "object"} THEN "object" ELSE v.tag

\* String(value)
StringOf(v) == Str(v.lit)

\* if (value): false for undefined, null, "", 0 and false
Truthy(v) ==
  /\ v.tag \notin {"undefined", "null"}
  /\ ~(v.tag = "string" /\ v.lit = "")
  /\ ~(v.tag = "number" /\ v.lit = "0")
  /\ ~(v.tag = "boolean" /\ v.lit = "false")

\* A value held by reference: every evaluation that builds one builds a new one,
\* which Object.is (React's comparison of dependencies) tells from any other.
IsReference(v) == v.tag \in {"array", "object", "function"}

\* JSON.stringify(v, null, 2): the text of v; a property whose value is undefined or
\* a function is left out of an object's text.
JsonStringify(v) ==
  IF v.tag = "object"
    THEN [json |-> Obj({f \in v.fields : f[2].tag \notin {"undefined", "function"}})]
    ELSE [json |-> v]

\* JSON.parse(text) of a text that JSON.stringify wrote.
JsonParse(text) == text.json

\* ----------------------------------------------------------- Graph Store

NodeIds == {"a", "b", "c"}
Handles == {"headers", "body", "in"}

\* data of a node that has never run: every runtime field is undefined. A
\* triggerExecution of 0 is an undefined one (Date.now() is never 0).
NewData(code) ==
  [triggerExecution |-> 0, inputData |-> Undefined, result |-> Undefined,
   response |-> Undefined, headersInput |-> Undefined, bodyInput |-> Undefined,
   status |-> 0, statusText |-> "", code |-> code, mode |-> "create", url |-> "u1"]

Edge(s, t, h) == [source |-> s, target |-> t, targetHandle |-> h]

\* edges.filter(edge => edge.source === id)
OutgoingEdges(es, id) == {e \in es : e.source = id}

\* outgoingEdges.filter(edge => edge.target === node.id).map(edge => edge.targetHandle)
TargetHandles(es, id, target) == {e.targetHandle : e \in {x \in OutgoingEdges(es, id) : x.target = target}}

\* A router that also hands the value back to the node it came from.
IsTargetOrSelf(es, id, target) ==
  target = id \/ \E e \in {x \in es : x.source = id} : e.target = target

\* outgoingEdges.some(edge => edge.target === node.id)
IsConnectedTarget(es, id, target) == \E e \in OutgoingEdges(es, id) : e.target = target

\* ----------------------------------------------- TransformNode: the router

\* Object.entries(data).reduce((acc, [key, value]) => ({...acc, [key]: String(value)}), {})
StringifyValues(v) == Obj({<<f[1], StringOf(f[2])>> : f \in v.fields})

\* A router that coerces the body to a string and forgets the Response special case.
DeliverTransformCoercing(data, handles, type, v, stamp) ==
  IF "headers" \in handles
    THEN IF TypeOf(v) = "object" /\ v # Null /\ v.tag # "array"
           THEN [data EXCEPT !.headersInput = StringifyValues(v), !.triggerExecution = stamp]
           ELSE [data EXCEPT !.headersInput = Obj({}), !.triggerExecution = stamp]
  ELSE IF "body" \in handles
    THEN [data EXCEPT !.bodyInput = StringOf(v), !.triggerExecution = stamp]
  ELSE [data EXCEPT !.inputData = v, !.triggerExecution = stamp]

\* The data of one connected target after a delivery of v.
DeliverTransform(data, handles, type, v, stamp) ==
  IF "headers" \in handles
    THEN IF TypeOf(v) = "object" /\ v # Null /\ v.tag # "array"
           THEN [data EXCEPT !.headersInput = StringifyValues(v), !.triggerExecution = stamp]
           ELSE [data EXCEPT !.headersInput = Obj({}), !.triggerExecution = stamp]
  ELSE IF "body" \in handles
    THEN [data EXCEPT !.bodyInput = v, !.triggerExecution = stamp]
  ELSE IF type = "response"
    THEN [data EXCEPT !.inputData = v, !.response = v, !.triggerExecution = stamp]
  ELSE [data EXCEPT !.inputData = v, !.triggerExecution = stamp]

\* propagateDataToConnectedNodes of TransformNode; stamp is Date.now().
PropagateTransform(ns, es, id, v, stamp) ==
  IF OutgoingEdges(es, id) = {} THEN ns
  ELSE [n \in DOMAIN ns |->
          IF IsConnectedTarget(es, id, n)
            THEN [ns[n] EXCEPT !.data =
                    DeliverTransform(ns[n].data, TargetHandles(es, id, n), ns[n].type, v, stamp)]
            ELSE ns[n]]

\* ------------------------------------------------- RequestNode: the router

\* The data of one connected target after a delivery of v: no trigger is stamped.
DeliverRequest(data, handles, type, v) ==
  IF "headers" \in handles
    THEN IF TypeOf(v) = "object" \/ TypeOf(v) = "string"
           THEN [data EXCEPT !.headersInput = v]
           ELSE [data EXCEPT !.headersInput = StringOf(v)]
  ELSE IF "body" \in handles
    THEN [data EXCEPT !.bodyInput = v]
  ELSE IF type = "response"
    THEN [data EXCEPT !.inputData = v, !.response = v]
  ELSE [data EXCEPT !.inputData = v]

\* propagateDataToConnectedNodes of RequestNode.
PropagateRequest(ns, es, id, v) ==
  IF OutgoingEdges(es, id) = {} THEN ns
  ELSE [n \in DOMAIN ns |->
          IF IsConnectedTarget(es, id, n)
            THEN [ns[n] EXCEPT !.data =
                    DeliverRequest(ns[n].data, TargetHandles(es, id, n), ns[n].type, v)]
            ELSE ns[n]]

\* ------------------------------------------------- TransformNode: the run

Codes == {"return {x: 1}", "throw new Error()", "return undefined"}
Urls == {"u1", "u2"}

\* Code that returns a value of each kind the router tells apart.
RouteCodes ==
  {"return {x: 1}", "return {}", "return {k: 'v', n: null}", "return null",
   "return [1, 2]", "return 'pong'", "return ''", "return 0", "return true",
   "return () => 1"}

\* new Function('data', code)(inputData): [threw, value]
EvalCode(code, inputData) ==
  CASE code = "return {x: 1}" -> [threw |-> FALSE, value |-> Obj({<<"x", Num("1")>>})]
    [] code = "return {}" -> [threw |-> FALSE, value |-> Obj({})]
    [] code = "return {Authorization: 'Bearer t'}" ->
         [threw |-> FALSE, value |-> Obj({<<"Authorization", Str("Bearer t")>>})]
    [] code = "return {k: 'v', n: null}" ->
         [threw |-> FALSE, value |-> Obj({<<"k", Str("v")>>, <<"n", Null>>})]
    [] code = "return null" -> [threw |-> FALSE, value |-> Null]
    [] code = "return [1, 2]" -> [threw |-> FALSE, value |-> Arr("1,2")]
    [] code = "return 'pong'" -> [threw |-> FALSE, value |-> Str("pong")]
    [] code = "return ''" -> [threw |-> FALSE, value |-> Str("")]
    [] code = "return 0" -> [threw |-> FALSE, value |-> Num("0")]
    [] code = "return true" -> [threw |-> FALSE, value |-> Bool("true")]
    [] code = "return () => 1" -> [threw |-> FALSE, value |-> Fun]
    [] code = "return undefined" -> [threw |-> FALSE, value |-> Undefined]
    [] OTHER -> [threw |-> TRUE, value |-> Undefined]

\* A validation that lets every value through.
AnyResult(v) == TRUE

\* The validation of the transformed data: null, string, number, boolean or object.
ValidResult(v) == v = Null \/ TypeOf(v) \in {"string", "number", "boolean", "object"}

\* Whether a write of v over old changes what React compares with Object.is.
Changes(old, v) == IsReference(v) \/ v # old

\* Whether a delivery from id writes the target's inputData (the default branch).
WritesInput(es, id, target) ==
  /\ IsConnectedTarget(es, id, target)
  /\ "headers" \notin TargetHandles(es, id, target)
  /\ "body" \notin TargetHandles(es, id, target)

\* The effects to run after the store went from ns to ms by a delivery of v from id:
\* the trigger effect depends on data.triggerExecution and on the run callback
\* (handleTransform: code and data.inputData; handleSendRequest: url), the input
\* effect of a Transform node on data.inputData, mode and handleTransform, the one
\* effect of a Response node on data.inputData, data.response, data.triggerExecution.
PendingAfter(pd, ns, ms, es, id, v) ==
  [n \in DOMAIN ns |->
     LET token == ms[n].data.triggerExecution # ns[n].data.triggerExecution
         input == WritesInput(es, id, n) /\ Changes(ns[n].data.inputData, v)
     IN  [trig |-> pd[n].trig \/ token \/ (input /\ ns[n].type # "request"),
          input |-> pd[n].input \/ (input /\ ns[n].type = "transform")]]

\* A node has run for its token until the token changes.
RanAfter(rn, ns, ms) ==
  [n \in DOMAIN ns |->
     IF ms[n].data.triggerExecution # ns[n].data.triggerExecution THEN FALSE ELSE rn[n]]

\* kind: "transform" (a run of handleTransform), "send" (an HTTP call issued),
\* "request" (an HTTP call ended), "execute"; by: what started it; threw and tag:
\* whether the code or the call threw, and the kind of value it gave.
Event(kind, node, by, threw, tag) ==
  [kind |-> kind, node |-> node, by |-> by, threw |-> threw, tag |-> tag,
   flip |-> ~lastEvent.flip]

\* The store after handleTransform's two setNodes: the node's own result, then the
\* delivery to the connected nodes. A run that throws or fails the validation
\* reaches neither.
TransformStore(ns, es, id, out, stamp) ==
  IF out.threw \/ ~ValidResult(out.value) THEN ns
  ELSE PropagateTransform([ns EXCEPT ![id].data.result = out.value], es, id, out.value, stamp)

\* handleTransform of node id, started by an effect or by the button, with the
\* effects still pending (pd) and the nodes that have run for their token (tr).
HandleTransform(id, by, pd, tr) ==
  LET out == EvalCode(nodes[id].data.code, nodes[id].data.inputData)
      ms == TransformStore(nodes, edges, id, out, now)
  IN  /\ nodes' = ms
      /\ pending' = IF out.threw \/ ~ValidResult(out.value) THEN pd
                    ELSE PendingAfter(pd, nodes, ms, edges, id, out.value)
      /\ ran' = RanAfter(tr, nodes, ms)
      /\ lastEvent' = Event("transform", id, by, out.threw, out.value.tag)
      /\ UNCHANGED <<edges, now, loading, inflight, isExecuting, executionError,
                     isViewingOldVersion>>

\* useEffect(..., [data?.triggerExecution, id, handleTransform])
TransformTriggerEffect(id) ==
  /\ id \in DOMAIN nodes /\ nodes[id].type = "transform"
  /\ pending[id].trig
  /\ IF nodes[id].data.triggerExecution # 0
       THEN HandleTransform(id, "trigger", [pending EXCEPT ![id].trig = FALSE],
                            [ran EXCEPT ![id] = TRUE])
       ELSE /\ pending' = [pending EXCEPT ![id].trig = FALSE]
            /\ UNCHANGED <<nodes, edges, now, loading, inflight, isExecuting, executionError,
                           isViewingOldVersion, ran, lastEvent>>
  /\ UNCHANGED serverVars

\* useEffect(..., [data?.inputData, mode, id, handleTransform])
TransformInputEffect(id) ==
  /\ id \in DOMAIN nodes /\ nodes[id].type = "transform"
  /\ pending[id].input
  /\ IF nodes[id].data.mode = "transform" /\ Truthy(nodes[id].data.inputData)
       THEN HandleTransform(id, "input", [pending EXCEPT ![id].input = FALSE], ran)
       ELSE /\ pending' = [pending EXCEPT ![id].input = FALSE]
            /\ UNCHANGED <<nodes, edges, now, loading, inflight, isExecuting, executionError,
                           isViewingOldVersion, ran, lastEvent>>
  /\ UNCHANGED serverVars

\* Every effect has run: the next event (a click, a keystroke, a timer, an HTTP
\* response) is processed only then.
Quiescent == \A n \in DOMAIN nodes : ~pending[n].trig /\ ~pending[n].input

\* The Transform button (disabled only while a run is on, which no event sees).
ClickTransform(id) ==
  /\ Quiescent
  /\ id \in DOMAIN nodes /\ nodes[id].type = "transform"
  /\ HandleTransform(id, "click", pending, ran)
  /\ UNCHANGED serverVars

\* handleCodeChange: the code state and data.code; handleTransform is a new callback.
HandleCodeChange(id, code) ==
  /\ Quiescent
  /\ id \in DOMAIN nodes /\ nodes[id].type = "transform"
  /\ code # nodes[id].data.code
  /\ nodes' = [nodes EXCEPT ![id].data.code = code]
  /\ pending' = [pending EXCEPT ![id] = [trig |-> TRUE, input |-> TRUE]]
  /\ UNCHANGED <<edges, now, loading, inflight, isExecuting, executionError,
                 isViewingOldVersion, ran, lastEvent>>
  /\ UNCHANGED serverVars

\* handleModeChange: the mode state and data.mode.
HandleModeChange(id, mode) ==
  /\ Quiescent
  /\ id \in DOMAIN nodes /\ nodes[id].type = "transform"
  /\ mode # nodes[id].data.mode
  /\ nodes' = [nodes EXCEPT ![id].data.mode = mode]
  /\ pending' = [pending EXCEPT ![id].input = TRUE]
  /\ UNCHANGED <<edges, now, loading, inflight, isExecuting, executionError,
                 isViewingOldVersion, ran, lastEvent>>
  /\ UNCHANGED serverVars

\* --------------------------------------------------- RequestNode: the run

\* axios calls one node may have in flight.
MaxInFlight == 1

RespValues == {Obj({<<"origin", Str("1.2.3.4")>>}), Str("pong")}

\* Response bodies of each kind the router tells apart.
RouteValues ==
  {Obj({<<"x", Num("1")>>}), Obj({}), Obj({<<"k", Str("v")>>, <<"n", Null>>}), Null,
   Arr("1,2"), Str("pong"), Str(""), Num("0"), Bool("true")}

\* The store after the await of axios(config): the node's own response, status and
\* statusText, then the delivery to the connected nodes. A call that fails (axios
\* throws) reaches neither.
RequestStore(ns, es, id, res) ==
  IF res.threw THEN ns
  ELSE PropagateRequest([ns EXCEPT ![id].data.response = res.value, ![id].data.status = 200,
                                    ![id].data.statusText = "OK"], es, id, res.value)

\* handleSendRequest up to its await: the request is issued.
SendRequest(id, by, pd, tr) ==
  /\ inflight[id] < MaxInFlight
  /\ lastEvent' = Event("send", id, by, FALSE, "undefined")
  /\ inflight' = [inflight EXCEPT ![id] = @ + 1]
  /\ loading' = [loading EXCEPT ![id] = TRUE]
  /\ pending' = pd
  /\ ran' = tr
  /\ UNCHANGED <<nodes, edges, now, isExecuting, executionError, isViewingOldVersion>>

\* useEffect(..., [data?.triggerExecution, handleSendRequest])
RequestTriggerEffect(id) ==
  /\ id \in DOMAIN nodes /\ nodes[id].type = "request"
  /\ pending[id].trig
  /\ IF nodes[id].data.triggerExecution # 0
       THEN SendRequest(id, "trigger", [pending EXCEPT ![id].trig = FALSE],
                        [ran EXCEPT ![id] = TRUE])
       ELSE /\ pending' = [pending EXCEPT ![id].trig = FALSE]
            /\ UNCHANGED <<nodes, edges, now, loading, inflight, isExecuting, executionError,
                           isViewingOldVersion, ran, lastEvent>>
  /\ UNCHANGED serverVars

\* The Send button, disabled while loading.
ClickSend(id) ==
  /\ Quiescent
  /\ id \in DOMAIN nodes /\ nodes[id].type = "request"
  /\ ~loading[id]
  /\ SendRequest(id, "click", pending, ran)
  /\ UNCHANGED serverVars

\* handleUrlChange: the url state and data.url; handleSendRequest is a new callback.
HandleUrlChange(id, url) ==
  /\ Quiescent
  /\ id \in DOMAIN nodes /\ nodes[id].type = "request"
  /\ url # nodes[id].data.url
  /\ nodes' = [nodes EXCEPT ![id].data.url = url]
  /\ pending' = [pending EXCEPT ![id].trig = TRUE]
  /\ UNCHANGED <<edges, now, loading, inflight, isExecuting, executionError,
                 isViewingOldVersion, ran, lastEvent>>
  /\ UNCHANGED serverVars

\* handleSendRequest after its await: res is [threw, value], the response's data or
\* the failure of the call.
RequestComplete(id, res) ==
  /\ Quiescent
  /\ id \in DOMAIN nodes /\ nodes[id].type = "request"
  /\ inflight[id] > 0
  /\ LET ms == RequestStore(nodes, edges, id, res)
     IN  /\ nodes' = ms
         /\ pending' = IF res.threw THEN pending
                       ELSE PendingAfter(pending, nodes, ms, edges, id, res.value)
         /\ ran' = RanAfter(ran, nodes, ms)
  /\ inflight' = [inflight EXCEPT ![id] = @ - 1]
  /\ loading' = [loading EXCEPT ![id] = FALSE]
  /\ lastEvent' = Event("request", id, "response", res.threw, res.value.tag)
  /\ UNCHANGED <<edges, now, isExecuting, executionError, isViewingOldVersion>>
  /\ UNCHANGED serverVars

\* ResponseNode's effect: the node shows its spinner for 300 ms.
ResponseEffect(id) ==
  /\ id \in DOMAIN nodes /\ nodes[id].type = "response"
  /\ pending[id].trig
  /\ pending' = [pending EXCEPT ![id].trig = FALSE]
  /\ UNCHANGED <<nodes, edges, now, loading, inflight, isExecuting, executionError,
                 isViewingOldVersion, ran, lastEvent>>
  /\ UNCHANGED serverVars

\* ------------------------------------------- RequestNode: the headers text

\* The headers texts the user types.
HeaderTexts == {JsonStringify(Obj({})), JsonStringify(Obj({<<"Accept", Str("json")>>}))}

\* Code whose result is a map of headers, and code whose result is another object.
HeaderCodes == {"return {Authorization: 'Bearer t'}", "return {x: 1}"}

\* The headersInput effects have run as well.
QuiescentHeaders == \A n \in DOMAIN nodes : ~headersPending[n]

\* The text setHeaders receives for data.headersInput: the text of an object; of a
\* string that is no JSON text, the string itself (which JSON.parse rejects later).
HeadersText(v) ==
  IF TypeOf(v) = "object" THEN JsonStringify(v) ELSE [json |-> StringOf(v), invalid |-> TRUE]

\* parsedHeaders of handleSendRequest: JSON.parse(headers), {} when it throws.
ParsedHeaders(text) == IF "invalid" \in DOMAIN text THEN Obj({}) ELSE JsonParse(text)

\* The step is a run of a Transform node that delivers to the headers port of n:
\* data.headersInput of n is a new object.
HeadersDelivered(n) ==
  /\ lastEvent' # lastEvent /\ lastEvent'.kind = "transform"
  /\ LET id == lastEvent'.node
         out == EvalCode(nodes[id].data.code, nodes[id].data.inputData)
     IN  /\ ~out.threw /\ ValidResult(out.value)
         /\ "headers" \in TargetHandles(edges, id, n)

\* A step of a Transform component beside Request components: the headersInput
\* effect of every Request node it delivered headers to is left to run.
WithHeadersInput(step) ==
  /\ step
  /\ headersPending' = [n \in DOMAIN nodes |->
                          headersPending[n] \/ (nodes[n].type = "request" /\ HeadersDelivered(n))]
  /\ UNCHANGED <<headers, useInputAsHeaders, sentHeaders>>

\* A step of the Request component of id: if it issues the call, config.headers is
\* what the headers text of this render parses to.
WithConfig(step, id) ==
  /\ step
  /\ sentHeaders' = IF lastEvent' # lastEvent /\ lastEvent'.kind = "send"
                      THEN [sentHeaders EXCEPT ![id] = ParsedHeaders(headers[id])]
                      ELSE sentHeaders
  /\ UNCHANGED <<headers, useInputAsHeaders, headersPending>>

\* useEffect(..., [data?.headersInput, useInputAsHeaders, setHeaders]). It is declared
\* after the trigger effect, so it runs after it. A new headers text makes
\* handleSendRequest a new callback.
HeadersInputEffect(id) ==
  /\ id \in DOMAIN nodes /\ nodes[id].type = "request"
  /\ headersPending[id] /\ ~pending[id].trig
  /\ headersPending' = [headersPending EXCEPT ![id] = FALSE]
  /\ IF useInputAsHeaders[id] /\ Truthy(nodes[id].data.headersInput)
       THEN LET text == HeadersText(nodes[id].data.headersInput)
            IN  /\ headers' = [headers EXCEPT ![id] = text]
                /\ pending' = [pending EXCEPT ![id].trig = @ \/ text # headers[id]]
       ELSE UNCHANGED <<headers, pending>>
  /\ UNCHANGED <<useInputAsHeaders, sentHeaders>>
  /\ UNCHANGED <<nodes, edges, now, loading, inflight, isExecuting, executionError,
                 isViewingOldVersion, ran, lastEvent>>
  /\ UNCHANGED serverVars

\* handleUseInputAsHeadersChange: the checkbox.
HandleUseInputAsHeadersChange(id, checked) ==
  /\ Quiescent /\ QuiescentHeaders
  /\ id \in DOMAIN nodes /\ nodes[id].type = "request"
  /\ checked # useInputAsHeaders[id]
  /\ useInputAsHeaders' = [useInputAsHeaders EXCEPT ![id] = checked]
  /\ headersPending' = [headersPending EXCEPT ![id] = TRUE]
  /\ UNCHANGED <<headers, sentHeaders>>
  /\ UNCHANGED editorVars
  /\ UNCHANGED serverVars

\* handleHeadersChange: the headers text area, read-only while the checkbox is set.
HandleHeadersChange(id, text) ==
  /\ Quiescent /\ QuiescentHeaders
  /\ id \in DOMAIN nodes /\ nodes[id].type = "request"
  /\ ~useInputAsHeaders[id] /\ text # headers[id]
  /\ headers' = [headers EXCEPT ![id] = text]
  /\ pending' = [pending EXCEPT ![id].trig = TRUE]
  /\ UNCHANGED <<useInputAsHeaders, headersPending, sentHeaders>>
  /\ UNCHANGED <<nodes, edges, now, loading, inflight, isExecuting, executionError,
                 isViewingOldVersion, ran, lastEvent>>
  /\ UNCHANGED serverVars

\* ------------------------------------------------ FlowContent: executeFlow

NoEntryNodes == "No entry nodes found to start execution"

\* Every node, whatever its edges.
AllNodes(ns, es) == DOMAIN ns

\* Nodes that are the source of no edge.
NodesWithoutOutgoing(ns, es) == {n \in DOMAIN ns : n \notin {e.source : e \in es}}

\* nodes.filter(node => !incomingConnections.has(node.id))
EntryNodes(ns, es) == {n \in DOMAIN ns : n \notin {e.target : e \in es}}

\* The setNodes of executeFlow: the token on every entry node.
StampEntries(ns, entries, token) ==
  [n \in DOMAIN ns |->
     IF n \in entries THEN [ns[n] EXCEPT !.data.triggerExecution = token] ELSE ns[n]]

\* The node types FlowContent registers with React Flow. A node of another type (a
\* Start node) is drawn with the library's default node: no component of this
\* repository is mounted for it, so it has no button and no effect.
NodeTypes == {"request", "response", "transform"}

\* The trigger effects to run after the tokens of ns became those of ms.
PendingAfterStamp(pd, ns, ms) ==
  [n \in DOMAIN ns |->
     [pd[n] EXCEPT !.trig = @ \/ (/\ ns[n].type \in NodeTypes
                                  /\ ms[n].data.triggerExecution # ns[n].data.triggerExecution)]]

\* A click on Execute: the button is disabled while executing, on an empty graph
\* and while an old version is viewed; executeFlow returns at once in the last two
\* cases.
ExecuteFlow ==
  /\ Quiescent
  /\ ~isExecuting /\ DOMAIN nodes # {} /\ ~isViewingOldVersion
  /\ IF DOMAIN nodes = {} \/ isViewingOldVersion
       THEN UNCHANGED <<nodes, pending, ran, isExecuting, executionError>>
       ELSE IF EntryNodes(nodes, edges) = {}
         THEN /\ executionError' = NoEntryNodes
              /\ isExecuting' = FALSE
              /\ UNCHANGED <<nodes, pending, ran>>
         ELSE LET ms == StampEntries(nodes, EntryNodes(nodes, edges), now)
              IN  /\ nodes' = ms
                  /\ pending' = PendingAfterStamp(pending, nodes, ms)
                  /\ ran' = RanAfter(ran, nodes, ms)
                  /\ isExecuting' = TRUE
                  /\ executionError' = "none"
  /\ lastEvent' = Event("execute", "none", "click", FALSE, "undefined")
  /\ UNCHANGED <<edges, now, loading, inflight, isViewingOldVersion>>
  /\ UNCHANGED serverVars

\* setTimeout(() => setIsExecuting(false), 500)
ExecutingTimeout ==
  /\ Quiescent
  /\ isExecuting
  /\ isExecuting' = FALSE
  /\ UNCHANGED <<nodes, edges, now, pending, loading, inflight, executionError,
                 isViewingOldVersion, ran, lastEvent>>
  /\ UNCHANGED serverVars

\* ------------------------------------------------------------- StartNode

\* The setNodes of handleStart: the token on every target of an edge from id.
StampTargets(ns, es, id, token) ==
  [n \in DOMAIN ns |->
     IF IsConnectedTarget(es, id, n)
       THEN [ns[n] EXCEPT !.data.triggerExecution = token] ELSE ns[n]]

\* The Start button of StartNode. The component is mounted only for a node whose
\* type is registered, and "start" is not: no behaviour of FlowContent takes this
\* step. Without an outgoing edge it only shows 'No connected nodes to start'.
HandleStart(id) ==
  /\ Quiescent
  /\ id \in DOMAIN nodes /\ nodes[id].type = "start" /\ "start" \in NodeTypes
  /\ IF OutgoingEdges(edges, id) = {}
       THEN UNCHANGED <<nodes, pending, ran>>
       ELSE LET ms == StampTargets(nodes, edges, id, now)
            IN  /\ nodes' = ms
                /\ pending' = PendingAfterStamp(pending, nodes, ms)
                /\ ran' = RanAfter(ran, nodes, ms)
  /\ lastEvent' = Event("start", id, "click", OutgoingEdges(edges, id) = {}, "undefined")
  /\ UNCHANGED <<edges, now, loading, inflight, isExecuting, executionError,
                 isViewingOldVersion>>
  /\ UNCHANGED serverVars

\* Milliseconds Date.now() may advance in one behaviour.
MaxClock == 2

\* A millisecond passes.
Tick ==
  /\ now < MaxClock
  /\ now' = now + 1
  /\ UNCHANGED <<nodes, edges, pending, loading, inflight, isExecuting, executionError,
                 isViewingOldVersion, ran, lastEvent>>
  /\ UNCHANGED serverVars

\* ------------------------------------------------------- specifications

InitServer ==
  /\ definitions = {}
  /\ flows = {}
  /\ journeys = {}
  /\ usedIds = {}
  /\ nextId = 1
  /\ req = [c \in Clients |-> Idle]
  /\ putLog = [f \in FlowIds |-> <<>>]

NoEvent == [kind |-> "none", node |-> "none", by |-> "none", threw |-> FALSE,
            tag |-> "undefined", flip |-> FALSE]

\* The Graph Store and the node components of the given node types and edges,
\* nothing run yet.
InitGraphStore(types, es, viewing) ==
  /\ nodes = [n \in DOMAIN types |->
                [type |-> types[n], data |-> NewData("return {x: 1}")]]
  /\ edges = es
  /\ now = 1
  /\ pending = [n \in DOMAIN types |-> [trig |-> FALSE, input |-> FALSE]]
  /\ loading = [n \in DOMAIN types |-> FALSE]
  /\ inflight = [n \in DOMAIN types |-> 0]
  /\ isExecuting = FALSE
  /\ executionError = "none"
  /\ isViewingOldVersion = viewing
  /\ ran = [n \in DOMAIN types |-> FALSE]
  /\ lastEvent = NoEvent
  /\ headers = [n \in DOMAIN types |-> JsonStringify(Obj({}))]
  /\ useInputAsHeaders = [n \in DOMAIN types |-> FALSE]
  /\ headersPending = [n \in DOMAIN types |-> FALSE]
  /\ sentHeaders = [n \in DOMAIN types |-> Undefined]

\* No node type at all: the empty graph.
NoTypes == [n \in {} |-> "none"]

\* ------------------------------------------------------------ useAutoSave

\* The quiet period of the debounce timer (delay: 4000), in clock ticks.
Delay == 1

\* The flow the editor is opened on.
OpenFlow == "f1"

\* cleanNodeDataForSave: seven fields of every node's data are set to undefined
\* (which JSON.stringify then leaves out); data.inputData is not among them.
CleanNodeDataForSave(ns) ==
  [n \in DOMAIN ns |->
     [ns[n] EXCEPT !.data.response = Undefined, !.data.result = Undefined,
                   !.data.headersInput = Undefined, !.data.bodyInput = Undefined,
                   !.data.status = 0, !.data.statusText = "",
                   !.data.triggerExecution = 0]]

\* What JSON.stringify keeps of a property value: undefined and functions are left
\* out, which reads back as undefined.
JsonValue(v) == IF v.tag \in {"undefined", "function"} THEN Undefined ELSE v

\* JSON.stringify({nodes, edges}), as the text reads back with JSON.parse.
StringifyGraph(ns, es) ==
  [nodes |-> [n \in DOMAIN ns |->
                [ns[n] EXCEPT !.data.inputData = JsonValue(@), !.data.result = JsonValue(@),
                              !.data.response = JsonValue(@),
                              !.data.headersInput = JsonValue(@),
                              !.data.bodyInput = JsonValue(@)]],
   edges |-> es]

\* The empty string the refs lastKnownDataRef and lastSaveRef start with.
NoText == [empty |-> TRUE]

\* localStorage has no item for the flow.
NoDraft == [nodes |-> NoTypes, edges |-> {}, timestamp |-> 0]

\* JSON.stringify({nodes: cleanNodeDataForSave(nodes), edges, timestamp: Date.now()})
DraftOf(ns, es, time) ==
  [nodes |-> StringifyGraph(CleanNodeDataForSave(ns), es).nodes, edges |-> es,
   timestamp |-> time]

\* A comparison that lets the draft win a tie.
DraftIsNotOlder(timestamp, serverTimestamp) == timestamp >= serverTimestamp

\* localDraft.timestamp > new Date(response.data.updatedAt).getTime()
DraftIsNewer(timestamp, serverTimestamp) == timestamp > serverTimestamp

\* No timer: saveTimeoutRef.current is null.
NoTimer == [deadline |-> 0]

\* A scheduleAutoSave that leaves the earlier timer running.
KeepTimeout(ts, ref) == ts

\* clearTimeout(saveTimeoutRef.current)
ClearTimeout(ts, ref) == ts \ {ref}

\* The effects to run after setNodes replaced the nodes ns by ms: a component that
\* is mounted runs every effect; one that stays runs those whose dependencies
\* changed.
PendingAfterSetNodes(pd, ns, ms) ==
  [n \in DOMAIN ms |->
     IF n \notin DOMAIN ns
       THEN [trig |-> TRUE, input |-> ms[n].type = "transform"]
       ELSE LET old == ns[n].data
                new == ms[n].data
                run == ms[n].type = "transform" /\ (new.code # old.code \/ new.inputData # old.inputData)
                shown == ms[n].type = "response" /\ (new.inputData # old.inputData \/ new.response # old.response)
            IN  [trig |-> pd[n].trig \/ new.triggerExecution # old.triggerExecution \/ run \/ shown,
                 input |-> pd[n].input \/ run \/ (ms[n].type = "transform" /\ new.mode # old.mode)]]

\* The state of a node's component, kept while the node stays and initial when it
\* is mounted.
Remount(f, ms, initial) == [n \in DOMAIN ms |-> IF n \in DOMAIN f THEN f[n] ELSE initial]

\* setNodes(ms) with nodes read from a stored definition or a draft.
SetNodes(ms) ==
  /\ nodes' = ms
  /\ pending' = PendingAfterSetNodes(pending, nodes, ms)
  /\ loading' = Remount(loading, ms, FALSE)
  /\ inflight' = Remount(inflight, ms, 0)
  /\ ran' = [n \in DOMAIN ms |->
               IF n \in DOMAIN nodes /\ ms[n].data.triggerExecution = nodes[n].data.triggerExecution
                 THEN ran[n] ELSE FALSE]
  /\ headers' = Remount(headers, ms, JsonStringify(Obj({})))
  /\ useInputAsHeaders' = Remount(useInputAsHeaders, ms, FALSE)
  /\ headersPending' = Remount(headersPending, ms, FALSE)
  /\ sentHeaders' = Remount(sentHeaders, ms, Undefined)

\* markDataAsKnown(ns, es)
MarkDataAsKnownBy(ns, es, by) ==
  /\ lastKnownData' = StringifyGraph(CleanNodeDataForSave(ns), es)
  /\ initialLoad' = FALSE
  /\ hasUnsavedChanges' = FALSE
  /\ knownBy' = by

MarkDataAsKnown(ns, es) == MarkDataAsKnownBy(ns, es, "mark")

\* Every effect of the committed render has run, the auto-save effect included.
Settled == Quiescent /\ QuiescentHeaders /\ ~savePending

\* A step of a node component in the open flow. If it changes the Graph Store,
\* FlowContent renders again and its auto-save effect runs again.
WithRender(step) ==
  /\ step
  /\ savePending' = (nodes' # nodes)
  /\ UNCHANGED <<draft, lastKnownData, initialLoad, isLoading, hasUnsavedChanges, timers,
                 saveTimeoutRef, lastSave, puts, loadPc, flowInitialized, original,
                 viewingVersion, updatedAt, knownBy>>
  /\ UNCHANGED requestVars

\* What markDataAsKnown writes.
knownVars == <<lastKnownData, initialLoad, hasUnsavedChanges, knownBy>>

\* What setNodes writes when it replaces the graph.
mountVars == <<nodes, pending, loading, inflight, ran, headers, useInputAsHeaders,
               headersPending, sentHeaders>>

\* scheduleAutoSave(ns, es) in the render that has isViewingOldVersion and, through
\* hasDataChanged, the baseline lastKnownDataRef. The timer's callback keeps ns, es
\* and the saveToServer of this render.
ScheduleAutoSave(ns, es) ==
  LET currentData == StringifyGraph(CleanNodeDataForSave(ns), es)
      timer == [deadline |-> now + Delay, nodes |-> ns, edges |-> es,
                viewing |-> isViewingOldVersion]
  IN  IF isViewingOldVersion \/ isLoading
        THEN UNCHANGED <<draft, knownVars, timers, saveTimeoutRef>>
      ELSE IF initialLoad
        THEN /\ lastKnownData' = currentData
             /\ initialLoad' = FALSE
             /\ knownBy' = "schedule"
             /\ UNCHANGED <<draft, hasUnsavedChanges, timers, saveTimeoutRef>>
      ELSE IF currentData = lastKnownData
        THEN UNCHANGED <<draft, knownVars, timers, saveTimeoutRef>>
      ELSE /\ lastKnownData' = currentData
           /\ knownBy' = "schedule"
           /\ hasUnsavedChanges' = TRUE
           /\ draft' = DraftOf(ns, es, now)
           /\ timers' = ClearTimeout(timers, saveTimeoutRef) \cup {timer}
           /\ saveTimeoutRef' = timer
           /\ UNCHANGED initialLoad

\* The auto-save effect of FlowContent. scheduleAutoSave is a new callback in every
\* render (its options are new functions), so the effect runs after every render.
AutoSaveEffect ==
  /\ savePending
  /\ savePending' = FALSE
  /\ IF flowInitialized /\ ~isViewingOldVersion /\ ~isLoading
       THEN ScheduleAutoSave(nodes, edges)
       ELSE UNCHANGED <<draft, knownVars, timers, saveTimeoutRef>>
  /\ UNCHANGED <<isLoading, lastSave, puts, loadPc, flowInitialized, original,
                 viewingVersion, updatedAt>>
  /\ UNCHANGED <<editorVars, requestVars, serverVars>>

\* PUT requests of the editor in flight at one time.
MaxPuts == 1

\* Versions the server creates for the editor in one behaviour.
MaxSaves == 1

\* The request of a PUT /api/flow-definitions/{id}.
Put(by, content) == [by |-> by, content |-> content]

\* saveToServer(id, ns, es) of a render whose isViewingOldVersion was viewing, up
\* to its await; isLoadingRef is read when it is called.
SaveToServer(ns, es, viewing, by) ==
  LET body == StringifyGraph(CleanNodeDataForSave(ns), es)
  IN  IF viewing \/ isLoading
        THEN UNCHANGED puts
        ELSE /\ Put(by, body) \notin puts /\ Cardinality(puts) < MaxPuts
             /\ puts' = puts \cup {Put(by, body)}

\* The debounce timer t is due: its callback runs. The id of a timer that has
\* fired names no timer any more (clearTimeout of it does nothing), which is the
\* same as no id.
TimerFire(t) ==
  /\ Settled
  /\ t \in timers /\ now >= t.deadline
  /\ timers' = timers \ {t}
  /\ saveTimeoutRef' = IF saveTimeoutRef = t THEN NoTimer ELSE saveTimeoutRef
  /\ LET currentData == StringifyGraph(t.nodes, t.edges)
     IN  IF currentData # lastSave
           THEN /\ lastSave' = currentData
                /\ SaveToServer(t.nodes, t.edges, t.viewing, "auto")
           ELSE UNCHANGED <<lastSave, puts>>
  /\ UNCHANGED <<draft, knownVars, isLoading, loadPc, flowInitialized,
                 original, viewingVersion, savePending, updatedAt>>
  /\ UNCHANGED <<editorVars, requestVars, serverVars>>

\* The Save Now button, shown while hasUnsavedChanges(): handleManualSave.
ManualSave ==
  /\ Settled
  /\ flowInitialized /\ hasUnsavedChanges
  /\ IF ~isViewingOldVersion /\ ~isLoading
       THEN SaveToServer(nodes, edges, isViewingOldVersion, "manual")
       ELSE UNCHANGED puts
  /\ UNCHANGED <<draft, knownVars, isLoading, timers, saveTimeoutRef, lastSave, loadPc,
                 flowInitialized, original, viewingVersion, savePending, updatedAt>>
  /\ UNCHANGED <<editorVars, requestVars, serverVars>>

\* The PUT handler creates the next version of the flow with p's content.
ServerCreates(p) ==
  LET version == NewVersion(FindOneLatest(definitions, OpenFlow))
  IN  /\ Len(putLog[OpenFlow]) <= MaxSaves
      /\ definitions' = CreateDefinition(definitions, nextId, OpenFlow, p.content, version)
      /\ nextId' = nextId + 1
      /\ putLog' = [putLog EXCEPT ![OpenFlow] = Append(@, version)]
      /\ updatedAt' = (nextId :> now) @@ updatedAt
      /\ UNCHANGED <<flows, journeys, usedIds, req>>

\* The end of fetchFlowDefinition after the PUT of the empty definition.
LoadEnds ==
  /\ loadPc' = "done"
  /\ flowInitialized' = TRUE
  /\ isLoading' = FALSE
  /\ savePending' = TRUE

\* A saveToServer whose failure is handled as its success is.
SaveAnsweredDropsDraft(ok) ==
  /\ hasUnsavedChanges' = FALSE
  /\ draft' = NoDraft
  /\ executionError' = IF ok THEN executionError ELSE "Auto-save failed"

\* saveToServer after its await: onSaveSuccess clears the draft, onSaveError
\* reports the error.
SaveAnswered(ok) ==
  IF ok THEN /\ hasUnsavedChanges' = FALSE
             /\ draft' = NoDraft
             /\ UNCHANGED executionError
        ELSE /\ executionError' = "Auto-save failed"
             /\ UNCHANGED <<hasUnsavedChanges, draft>>

\* What the editor does when the PUT p is answered (ok) or fails.
PutAnswered(p, ok) ==
  CASE p.by \in {"auto", "manual"} ->
         /\ SaveAnswered(ok)
         /\ UNCHANGED <<lastKnownData, initialLoad, knownBy, isLoading, loadPc,
                        flowInitialized, original, viewingVersion, savePending,
                        isViewingOldVersion>>
    [] p.by = "restore" ->
         /\ IF ok THEN /\ original' = p.content
                       /\ isViewingOldVersion' = FALSE
                       /\ viewingVersion' = NoDoc
                       /\ draft' = NoDraft
                       /\ MarkDataAsKnownBy(p.content.nodes, p.content.edges, "restore")
                       /\ savePending' = TRUE
                       /\ UNCHANGED executionError
                  ELSE /\ executionError' = "Error restoring version"
                       /\ UNCHANGED <<original, isViewingOldVersion, viewingVersion, draft,
                                      knownVars, savePending>>
         /\ UNCHANGED <<isLoading, loadPc, flowInitialized>>
    [] p.by = "empty" ->
         /\ LoadEnds
         /\ UNCHANGED <<draft, knownVars, original, viewingVersion, executionError,
                        isViewingOldVersion>>

\* The PUT p is answered with the version created.
SaveSucceed(p) ==
  /\ Settled
  /\ p \in puts
  /\ puts' = puts \ {p}
  /\ ServerCreates(p)
  /\ PutAnswered(p, TRUE)
  /\ UNCHANGED <<timers, saveTimeoutRef, lastSave>>
  /\ UNCHANGED <<nodes, edges, now, pending, loading, inflight, isExecuting, ran, lastEvent>>
  /\ UNCHANGED requestVars

\* The PUT p fails: the request did not reach the handler.
SaveFail(p) ==
  /\ Settled
  /\ p \in puts
  /\ puts' = puts \ {p}
  /\ PutAnswered(p, FALSE)
  /\ UNCHANGED <<timers, saveTimeoutRef, lastSave, updatedAt>>
  /\ UNCHANGED <<nodes, edges, now, pending, loading, inflight, isExecuting, ran, lastEvent>>
  /\ UNCHANGED <<requestVars, serverVars>>

\* fetchFlowDefinition after its GET was answered with the latest definition. The
\* draft is loaded if it is newer than the definition, and discarded if it is not.
LoadSucceed ==
  /\ loadPc = "get"
  /\ LET doc == FindOneLatest(definitions, OpenFlow)
         useDraft == /\ draft # NoDraft /\ draft.timestamp # 0
                     /\ DraftIsNewer(draft.timestamp, updatedAt[doc.id])
         loaded == IF useDraft THEN draft ELSE doc.content
     IN  /\ doc # NoDoc
         /\ SetNodes(loaded.nodes)
         /\ edges' = loaded.edges
         /\ draft' = IF draft # NoDraft /\ draft.timestamp # 0 /\ ~useDraft THEN NoDraft ELSE draft
         /\ MarkDataAsKnown(loaded.nodes, loaded.edges)
         /\ original' = [nodes |-> doc.content.nodes, edges |-> doc.content.edges]
  /\ LoadEnds
  /\ UNCHANGED <<timers, saveTimeoutRef, lastSave, puts, viewingVersion, updatedAt>>
  /\ UNCHANGED <<now, isExecuting, executionError, isViewingOldVersion, lastEvent>>
  /\ UNCHANGED serverVars

\* The graph with no node.
NoGraph == [nodes |-> NoTypes, edges |-> {}]

\* fetchFlowDefinition after its GET failed: the draft, if any, is loaded, and the
\* empty definition is PUT before the load ends.
LoadFail ==
  /\ loadPc = "get"
  /\ LET loaded == IF draft # NoDraft THEN draft ELSE NoGraph
     IN  /\ SetNodes(loaded.nodes)
         /\ edges' = loaded.edges
         /\ MarkDataAsKnown(loaded.nodes, loaded.edges)
  /\ original' = NoGraph
  /\ executionError' = "Error loading flow"
  /\ Put("empty", NoGraph) \notin puts /\ Cardinality(puts) < MaxPuts
  /\ puts' = puts \cup {Put("empty", NoGraph)}
  /\ loadPc' = "putEmpty"
  /\ savePending' = TRUE
  /\ UNCHANGED <<draft, isLoading, timers, saveTimeoutRef, lastSave, flowInitialized,
                 viewingVersion, updatedAt>>
  /\ UNCHANGED <<now, isExecuting, isViewingOldVersion, lastEvent>>
  /\ UNCHANGED serverVars

\* The page is loaded again while no request is in flight: every component is
\* mounted anew, the timers are gone, the flow is fetched. The draft slot and the
\* Version Store stay.
Reload ==
  /\ Settled
  /\ loadPc = "done" /\ puts = {}
  /\ SetNodes(NoTypes)
  /\ edges' = {}
  /\ isExecuting' = FALSE
  /\ executionError' = "none"
  /\ isViewingOldVersion' = FALSE
  /\ lastKnownData' = NoText
  /\ initialLoad' = TRUE
  /\ hasUnsavedChanges' = FALSE
  /\ knownBy' = "none"
  /\ isLoading' = TRUE
  /\ timers' = {}
  /\ saveTimeoutRef' = NoTimer
  /\ lastSave' = NoText
  /\ loadPc' = "get"
  /\ flowInitialized' = FALSE
  /\ original' = NoGraph
  /\ viewingVersion' = NoDoc
  /\ savePending' = FALSE
  /\ UNCHANGED <<draft, puts, updatedAt, now, lastEvent>>
  /\ UNCHANGED serverVars

\* A handleVersionSelect that keeps what is on screen at every selection.
OriginalOverwritten(viewing, live, kept) == live

\* if (!isViewingOldVersion) { setOriginalNodes(nodes); setOriginalEdges(edges); }
OriginalAfterSelect(viewing, live, kept) == IF ~viewing THEN live ELSE kept

\* handleVersionSelect(version), with a version the history panel lists.
VersionSelect(version) ==
  /\ Settled
  /\ flowInitialized /\ version \in DefsOf(definitions, OpenFlow)
  /\ version # viewingVersion
  /\ original' = OriginalAfterSelect(isViewingOldVersion, [nodes |-> nodes, edges |-> edges], original)
  /\ SetNodes(version.content.nodes)
  /\ edges' = version.content.edges
  /\ isViewingOldVersion' = TRUE
  /\ viewingVersion' = version
  /\ savePending' = TRUE
  /\ UNCHANGED <<draft, knownVars, isLoading, timers, saveTimeoutRef, lastSave, puts, loadPc,
                 flowInitialized, updatedAt>>
  /\ UNCHANGED <<now, isExecuting, executionError, lastEvent>>
  /\ UNCHANGED serverVars

\* handleRestoreVersion up to its await: the viewed version is PUT as it is stored.
RestoreVersion ==
  /\ Settled
  /\ isViewingOldVersion /\ viewingVersion # NoDoc
  /\ Put("restore", viewingVersion.content) \notin puts /\ Cardinality(puts) < MaxPuts
  /\ puts' = puts \cup {Put("restore", viewingVersion.content)}
  /\ UNCHANGED <<draft, knownVars, isLoading, timers, saveTimeoutRef, lastSave, loadPc,
                 flowInitialized, original, viewingVersion, savePending, updatedAt>>
  /\ UNCHANGED <<editorVars, requestVars, serverVars>>

\* handleExitViewMode
ExitViewMode ==
  /\ Settled
  /\ isViewingOldVersion /\ viewingVersion # NoDoc
  /\ SetNodes(original.nodes)
  /\ edges' = original.edges
  /\ isViewingOldVersion' = FALSE
  /\ viewingVersion' = NoDoc
  /\ MarkDataAsKnown(original.nodes, original.edges)
  /\ savePending' = TRUE
  /\ UNCHANGED <<draft, isLoading, timers, saveTimeoutRef, lastSave, puts, loadPc,
                 flowInitialized, original, updatedAt>>
  /\ UNCHANGED <<now, isExecuting, executionError, lastEvent>>
  /\ UNCHANGED serverVars

\* A millisecond passes; a timer that is due fires first.
SaveTick ==
  /\ \A t \in timers : now < t.deadline
  /\ Tick
  /\ UNCHANGED hookVars

\* The hook and FlowContent as they are mounted, with draft d in the local slot:
\* pc "get" while fetchFlowDefinition awaits its GET, "none" when no flow is open.
InitAutoSave(d, pc, times) ==
  /\ draft = d
  /\ lastKnownData = NoText
  /\ initialLoad = TRUE
  /\ isLoading = (pc = "get")
  /\ hasUnsavedChanges = FALSE
  /\ timers = {}
  /\ saveTimeoutRef = NoTimer
  /\ lastSave = NoText
  /\ puts = {}
  /\ loadPc = pc
  /\ flowInitialized = FALSE
  /\ original = NoGraph
  /\ viewingVersion = NoDoc
  /\ savePending = FALSE
  /\ updatedAt = times
  /\ knownBy = "none"

\* No flow is open: the hook has nothing to save.
InitNoFlow == InitAutoSave(NoDraft, "none", <<>>)

\* The editor showing the graph of the given node types and edges, nothing run yet.
InitEditor(types, es, viewing) == InitGraphStore(types, es, viewing) /\ InitNoFlow

InitSeq == InitServer /\ InitEditor(NoTypes, {}, FALSE)

NextSeq ==
  /\ \E c \in Clients :
       \/ \E f \in FlowIds, k \in Contents \cup {Empty} : PutReadAlone(c, f, k)
       \/ PutCreate(c)
       \/ \E f \in FlowIds : GetDefinition(c, f)
       \/ \E f \in FlowIds : ListVersions(c, f)
  /\ UNCHANGED <<editorVars, hookVars>>

SpecSeq == InitSeq /\ [][NextSeq]_vars

InitStore == InitServer /\ InitEditor(NoTypes, {}, FALSE)

NextStore ==
  /\ \E c \in Clients :
       \/ \E f \in FlowIds, k \in Contents : PutRead(c, f, k)
       \/ PutCreate(c)
       \/ \E f \in FlowIds : GetDefinition(c, f)
       \/ \E f \in FlowIds : ListVersions(c, f)
       \/ \E n \in Names : PostFlowCreate(c, n)
       \/ PostFlowDefinition(c)
       \/ \E f \in FlowIds, n \in Names : UpdateFlow(c, f, n)
       \/ \E f \in FlowIds : DeleteFlow(c, f)
       \/ DeleteFlowDefinitions(c)
       \/ \E n \in Names : CreateJourney(c, n)
       \/ \E j \in JourneyIds, n \in Names : UpdateJourney(c, j, n)
       \/ \E j \in JourneyIds : DeleteJourney(c, j)
  /\ UNCHANGED <<editorVars, hookVars>>

SpecStore == InitStore /\ [][NextStore]_vars

\* The graphs the editor is opened on: the empty graph; a Transform into a Response
\* node beside a Response node with no edge (two entry nodes); a Request into a
\* Transform; a Request into a Response node; a Transform wired to itself (no entry
\* node); and a Response node whose only edge comes from a node that is gone,
\* beside a Transform. (SpecRoute has the headers and body ports.)
Graphs ==
  { [types |-> NoTypes, edges |-> {}],
    [types |-> ("a" :> "transform" @@ "b" :> "response" @@ "c" :> "response"),
     edges |-> {Edge("a", "c", "in")}],
    [types |-> ("a" :> "request" @@ "b" :> "transform"),
     edges |-> {Edge("a", "b", "in")}],
    [types |-> ("a" :> "request" @@ "b" :> "response"),
     edges |-> {Edge("a", "b", "in")}],
    [types |-> ("a" :> "transform"),
     edges |-> {Edge("a", "a", "in")}],
    [types |-> ("a" :> "transform" @@ "b" :> "response"),
     edges |-> {Edge("gone", "b", "in")}] }

\* The graphs that are also opened as the read-only view of an old version: those
\* without a Request node.
ViewedGraphs == {g \in Graphs : \A n \in DOMAIN g.types : g.types[n] # "request"}

InitGraph ==
  /\ InitServer
  /\ \/ \E g \in Graphs : InitEditor(g.types, g.edges, FALSE)
     \/ \E g \in ViewedGraphs : InitEditor(g.types, g.edges, TRUE)

NextGraph ==
  \/ ExecuteFlow /\ UNCHANGED hookVars
  \/ ExecutingTimeout /\ UNCHANGED hookVars
  \/ Tick /\ UNCHANGED hookVars
  \/ \E id \in NodeIds :
       \/ TransformTriggerEffect(id) /\ UNCHANGED hookVars
       \/ TransformInputEffect(id) /\ UNCHANGED hookVars
       \/ ClickTransform(id) /\ UNCHANGED hookVars
       \/ \E code \in Codes : HandleCodeChange(id, code) /\ UNCHANGED hookVars
       \/ \E mode \in {"transform", "create"} : HandleModeChange(id, mode) /\ UNCHANGED hookVars
       \/ RequestTriggerEffect(id) /\ UNCHANGED hookVars
       \/ ClickSend(id) /\ UNCHANGED hookVars
       \/ \E url \in Urls : HandleUrlChange(id, url) /\ UNCHANGED hookVars
       \/ \E v \in RespValues : RequestComplete(id, [threw |-> FALSE, value |-> v]) /\ UNCHANGED hookVars
       \/ RequestComplete(id, [threw |-> TRUE, value |-> Undefined]) /\ UNCHANGED hookVars
       \/ ResponseEffect(id) /\ UNCHANGED hookVars

SpecGraph == InitGraph /\ [][NextGraph]_vars

\* The graphs the router is run on: node a, a Transform or a Request node, wired to
\* b and c through each combination of ports that the router tells apart. Only a is
\* edited, clicked and answered; the calls that b and c issue when they are
\* triggered stay unanswered or fail.
RouteTargets ==
  { [types |-> ("b" :> "request" @@ "c" :> "response"),
     edges |-> {Edge("a", "b", "headers"), Edge("a", "c", "in")}],
    [types |-> ("b" :> "request" @@ "c" :> "request"),
     edges |-> {Edge("a", "b", "body"), Edge("a", "c", "in")}],
    [types |-> ("b" :> "request" @@ "c" :> "request"),
     edges |-> {Edge("a", "b", "headers"), Edge("a", "b", "body"),
                Edge("a", "c", "body"), Edge("a", "c", "in")}] }

InitRoute ==
  /\ InitServer
  /\ \E g \in RouteTargets, source \in {"transform", "request"} :
       InitEditor(("a" :> source) @@ g.types, g.edges, FALSE)

NextRoute ==
  \/ ClickTransform("a") /\ UNCHANGED hookVars
  \/ \E code \in RouteCodes : HandleCodeChange("a", code) /\ UNCHANGED hookVars
  \/ ClickSend("a") /\ UNCHANGED hookVars
  \/ \E v \in RouteValues : RequestComplete("a", [threw |-> FALSE, value |-> v]) /\ UNCHANGED hookVars
  \/ \E id \in NodeIds :
       \/ TransformTriggerEffect(id) /\ UNCHANGED hookVars
       \/ TransformInputEffect(id) /\ UNCHANGED hookVars
       \/ RequestTriggerEffect(id) /\ UNCHANGED hookVars
       \/ RequestComplete(id, [threw |-> TRUE, value |-> Undefined]) /\ UNCHANGED hookVars
       \/ ResponseEffect(id) /\ UNCHANGED hookVars

SpecRoute == InitRoute /\ [][NextRoute]_vars

\* The graph Start a -> Transform b -> Response c, b in mode create with the code
\* "return {x: 1}". The user may click Execute and b's Transform button, and edit
\* b's code and mode.
InitStart ==
  /\ InitServer
  /\ InitEditor(("a" :> "start" @@ "b" :> "transform" @@ "c" :> "response"),
                {Edge("a", "b", "in"), Edge("b", "c", "in")}, FALSE)

EffectsStart ==
  \E id \in NodeIds :
    \/ TransformTriggerEffect(id)
    \/ TransformInputEffect(id)
    \/ ResponseEffect(id)

NextStart ==
  \/ ExecuteFlow /\ UNCHANGED hookVars
  \/ ExecutingTimeout /\ UNCHANGED hookVars
  \/ Tick /\ UNCHANGED hookVars
  \/ ClickTransform("b") /\ UNCHANGED hookVars
  \/ \E code \in Codes : HandleCodeChange("b", code) /\ UNCHANGED hookVars
  \/ \E mode \in {"transform", "create"} : HandleModeChange("b", mode) /\ UNCHANGED hookVars
  \/ EffectsStart /\ UNCHANGED hookVars

\* React runs the effects of a committed render and the browser fires a timer that
\* is due; nothing makes the user click.
SpecStart ==
  /\ InitStart /\ [][NextStart]_vars
  /\ WF_vars(EffectsStart /\ UNCHANGED hookVars)
  /\ WF_vars(ExecutingTimeout /\ UNCHANGED hookVars)

\* A Transform a wired to the headers port of the Request b (method GET, no edge to
\* its body port). The user edits and runs a, ticks b's checkbox and types b's
\* headers; b's calls are answered or fail.
InitHeaders ==
  /\ InitServer
  /\ InitEditor(("a" :> "transform" @@ "b" :> "request"), {Edge("a", "b", "headers")}, FALSE)

\* The steps of the two components, each with what it leaves to the other.
HeadersClickTransform == QuiescentHeaders /\ WithHeadersInput(ClickTransform("a"))

HeadersCodeChange(code) == QuiescentHeaders /\ WithHeadersInput(HandleCodeChange("a", code))

HeadersTransformTrigger == WithHeadersInput(TransformTriggerEffect("a"))

HeadersTransformInput == WithHeadersInput(TransformInputEffect("a"))

HeadersRequestTrigger == WithConfig(RequestTriggerEffect("b"), "b")

HeadersRequestComplete(res) == QuiescentHeaders /\ WithConfig(RequestComplete("b", res), "b")

HeadersTick == Tick /\ UNCHANGED hookVars

NextHeaders ==
  \/ HeadersClickTransform /\ UNCHANGED saveVars
  \/ \E code \in HeaderCodes : HeadersCodeChange(code) /\ UNCHANGED saveVars
  \/ HeadersTransformTrigger /\ UNCHANGED saveVars
  \/ HeadersTransformInput /\ UNCHANGED saveVars
  \/ HeadersRequestTrigger /\ UNCHANGED saveVars
  \/ HeadersInputEffect("b") /\ UNCHANGED saveVars
  \/ \E checked \in BOOLEAN : HandleUseInputAsHeadersChange("b", checked) /\ UNCHANGED saveVars
  \/ \E text \in HeaderTexts : HandleHeadersChange("b", text) /\ UNCHANGED saveVars
  \/ \E v \in RespValues : HeadersRequestComplete([threw |-> FALSE, value |-> v]) /\ UNCHANGED saveVars
  \/ HeadersRequestComplete([threw |-> TRUE, value |-> Undefined]) /\ UNCHANGED saveVars
  \/ HeadersTick /\ UNCHANGED saveVars

SpecHeaders == InitHeaders /\ [][NextHeaders]_vars

\* The flow f1 whose only stored version is a Transform a wired to a Response b.
\* The editor is opened on it, with or without a draft that an earlier session
\* left in the slot; the user edits and runs a, executes the flow, saves, views,
\* restores and leaves old versions and reloads the page; every request to the
\* server is answered or fails.
SaveCodes == {"return {x: 1}", "throw new Error()"}

SaveEdges == {Edge("a", "b", "in")}

StoredNodes(code) ==
  ("a" :> [type |-> "transform", data |-> NewData(code)]) @@
  ("b" :> [type |-> "response", data |-> NewData("return {x: 1}")])

StoredGraph == StringifyGraph(CleanNodeDataForSave(StoredNodes("return {x: 1}")), SaveEdges)

LeftoverDraft == DraftOf(StoredNodes("throw new Error()"), SaveEdges, 1)

InitSave ==
  /\ definitions = CreateDefinition({}, 1, OpenFlow, StoredGraph, 1)
  /\ flows = {[id |-> OpenFlow, name |-> "n1"]}
  /\ journeys = {}
  /\ usedIds = {OpenFlow}
  /\ nextId = 2
  /\ req = [c \in Clients |-> Idle]
  /\ putLog = [f \in FlowIds |-> IF f = OpenFlow THEN <<1>> ELSE <<>>]
  /\ InitGraphStore(NoTypes, {}, FALSE)
  /\ \/ InitAutoSave(NoDraft, "get", 1 :> 1)
     \/ \E time \in {0, 1} : InitAutoSave(LeftoverDraft, "get", 1 :> time)

SaveClickTransform == Settled /\ WithRender(ClickTransform("a"))

SaveCodeChange(code) == Settled /\ WithRender(HandleCodeChange("a", code))

\* The effects of the node components run after the effect of FlowContent has seen
\* the render they belong to: what they write to the Graph Store is another render.
SaveTransformTrigger(id) == ~savePending /\ WithRender(TransformTriggerEffect(id))

SaveTransformInput(id) == ~savePending /\ WithRender(TransformInputEffect(id))

SaveResponseEffect(id) == ~savePending /\ WithRender(ResponseEffect(id))

\* The effects of the node components.
NodeEffects ==
  \E id \in NodeIds :
    \/ SaveTransformTrigger(id)
    \/ SaveTransformInput(id)
    \/ SaveResponseEffect(id)

\* The user edits the code of a; the hook saves.
NextSave ==
  \/ LoadSucceed
  \/ \E code \in SaveCodes : SaveCodeChange(code)
  \/ NodeEffects
  \/ AutoSaveEffect
  \/ \E t \in timers : TimerFire(t)
  \/ ManualSave
  \/ \E p \in puts : SaveSucceed(p)
  \/ \E p \in puts : SaveFail(p)
  \/ SaveTick

SpecSave == InitSave /\ [][NextSave]_vars

\* The user also runs a, which delivers its result to b.
NextRun ==
  \/ LoadSucceed
  \/ SaveClickTransform
  \/ \E code \in SaveCodes : SaveCodeChange(code)
  \/ NodeEffects
  \/ AutoSaveEffect
  \/ \E t \in timers : TimerFire(t)
  \/ \E p \in puts : SaveSucceed(p)
  \/ SaveTick

SpecRun == InitSave /\ [][NextRun]_vars

\* The user also views, restores and leaves the stored versions.
NextView ==
  \/ LoadSucceed
  \/ \E code \in SaveCodes : SaveCodeChange(code)
  \/ NodeEffects
  \/ AutoSaveEffect
  \/ \E t \in timers : TimerFire(t)
  \/ \E p \in puts : SaveSucceed(p)
  \/ \E version \in definitions : VersionSelect(version)
  \/ RestoreVersion
  \/ ExitViewMode
  \/ SaveTick

SpecView == InitSave /\ [][NextView]_vars

\* The user also reloads the page, and the GET of a load may fail.
NextLoad ==
  \/ LoadSucceed
  \/ LoadFail
  \/ Reload
  \/ \E code \in SaveCodes : SaveCodeChange(code)
  \/ NodeEffects
  \/ AutoSaveEffect
  \/ \E t \in timers : TimerFire(t)
  \/ \E p \in puts : SaveSucceed(p)
  \/ \E p \in puts : SaveFail(p)
  \/ SaveTick

SpecLoad == InitSave /\ [][NextLoad]_vars

\* ----------------------------------------- FlowContent: the editing handlers

\* if (isViewingOldVersion) return; in onConnect, onAddNode, handleNodesChange and
\* handleEdgesChange.
Editable(viewing) == ~viewing

\* What the handlers of FlowContent leave alone.
editFrame == <<draft, knownVars, isLoading, timers, saveTimeoutRef, lastSave, puts, loadPc,
               flowInitialized, original, viewingVersion, updatedAt, now, isExecuting,
               executionError, isViewingOldVersion, serverVars>>

\* React Flow removes node id: handleNodesChange receives the removal of the node and
\* handleEdgesChange that of its edges.
RemoveNode(id) ==
  /\ Settled /\ flowInitialized
  /\ id \in DOMAIN nodes
  /\ IF Editable(isViewingOldVersion)
       THEN /\ SetNodes([n \in DOMAIN nodes \ {id} |-> nodes[n]])
            /\ edges' = {e \in edges : e.source # id /\ e.target # id}
       ELSE UNCHANGED <<mountVars, edges>>
  /\ savePending' = Editable(isViewingOldVersion)
  /\ lastEvent' = Event("remove", id, "key", FALSE, "undefined")
  /\ UNCHANGED editFrame

\* onConnect(params): addEdge(params, eds)
OnConnect(s, t, h) ==
  /\ Settled /\ flowInitialized
  /\ s \in DOMAIN nodes /\ t \in DOMAIN nodes /\ s # t
  /\ Edge(s, t, h) \notin edges
  /\ edges' = IF Editable(isViewingOldVersion) THEN edges \cup {Edge(s, t, h)} ELSE edges
  /\ savePending' = Editable(isViewingOldVersion)
  /\ lastEvent' = Event("connect", t, "drag", FALSE, "undefined")
  /\ UNCHANGED mountVars
  /\ UNCHANGED editFrame

\* onAddNode(type): the new node, with an id not in use, is appended.
OnAddNode(id, type) ==
  /\ Settled /\ flowInitialized
  /\ id \notin DOMAIN nodes
  /\ IF Editable(isViewingOldVersion)
       THEN SetNodes(nodes @@ (id :> [type |-> type, data |-> NewData("return {x: 1}")]))
       ELSE UNCHANGED mountVars
  /\ savePending' = Editable(isViewingOldVersion)
  /\ lastEvent' = Event("add", id, "menu", FALSE, "undefined")
  /\ UNCHANGED edges
  /\ UNCHANGED editFrame

\* ------------------------------------------- viewing the versions of a run

\* The stored definition: Transform a feeds Transform b, which runs on its input.
SnapNodes ==
  ("a" :> [type |-> "transform", data |-> NewData("return {x: 1}")]) @@
  ("b" :> [type |-> "transform",
           data |-> [NewData("return {x: 1}") EXCEPT !.mode = "transform"]])

SnapGraph == StringifyGraph(CleanNodeDataForSave(SnapNodes), SaveEdges)

InitSnap ==
  /\ definitions = CreateDefinition({}, 1, OpenFlow, SnapGraph, 1)
  /\ flows = {[id |-> OpenFlow, name |-> "n1"]}
  /\ journeys = {}
  /\ usedIds = {OpenFlow}
  /\ nextId = 2
  /\ req = [c \in Clients |-> Idle]
  /\ putLog = [f \in FlowIds |-> IF f = OpenFlow THEN <<1>> ELSE <<>>]
  /\ InitGraphStore(NoTypes, {}, FALSE)
  /\ InitAutoSave(NoDraft, "get", 1 :> 1)

\* The Transform button of a, which the version history panel leaves reachable only
\* in Live mode.
SnapClickTransform == Settled /\ ~isViewingOldVersion /\ WithRender(ClickTransform("a"))

\* The user runs a, the hook saves, the user edits the graph and views the
\* versions (leaving Viewing mode is in SpecView).
NextSnap ==
  \/ LoadSucceed
  \/ SnapClickTransform
  \/ NodeEffects
  \/ AutoSaveEffect
  \/ \E t \in timers : TimerFire(t)
  \/ \E p \in puts : SaveSucceed(p)
  \/ \E version \in definitions : VersionSelect(version)
  \/ RemoveNode("b")
  \/ OnConnect("b", "a", "in")
  \/ OnAddNode("c", "response")
  \/ SaveTick

SpecSnap == InitSnap /\ [][NextSnap]_vars

\* ------------------------------------------- restoring a version of the flow

\* The code editor of a node is used while the editor shows the live flow.
LiveCodeChange(code) ==
  /\ ~isViewingOldVersion
  /\ SaveCodeChange(code)

\* The user edits the live flow, views its versions, restores one or leaves; the
\* PUT of a Restore is answered or fails, every other request is answered.
NextRestore ==
  \/ LoadSucceed
  \/ \E code \in SaveCodes : LiveCodeChange(code)
  \/ NodeEffects
  \/ AutoSaveEffect
  \/ \E t \in timers : TimerFire(t)
  \/ \E p \in puts : SaveSucceed(p)
  \/ \E p \in puts : p.by = "restore" /\ SaveFail(p)
  \/ \E version \in definitions : VersionSelect(version)
  \/ RestoreVersion
  \/ ExitViewMode
  \/ SaveTick

SpecRestore == InitSave /\ [][NextRestore]_vars


\* --------------------------------------------- one execution of a whole flow

\* Acyclic graphs of the three node types: a Request a and a Transform c that both
\* feed the Transform b; a chain from a Request through a Transform to a Response
\* node; a Transform a that feeds the Response node c both directly and through
\* the Transform b; and a chain from a Transform through a Request to a Response
\* node.
EpisodeGraphs ==
  { [types |-> ("a" :> "request" @@ "b" :> "transform" @@ "c" :> "transform"),
     edges |-> {Edge("a", "b", "in"), Edge("c", "b", "in")}],
    [types |-> ("a" :> "request" @@ "b" :> "transform" @@ "c" :> "response"),
     edges |-> {Edge("a", "b", "in"), Edge("b", "c", "in")}],
    [types |-> ("a" :> "transform" @@ "b" :> "transform" @@ "c" :> "response"),
     edges |-> {Edge("a", "b", "in"), Edge("a", "c", "in"), Edge("b", "c", "in")}],
    [types |-> ("a" :> "transform" @@ "b" :> "request" @@ "c" :> "response"),
     edges |-> {Edge("a", "b", "in"), Edge("b", "c", "in")}] }

InitEpisode ==
  /\ InitServer
  /\ \E g \in EpisodeGraphs : InitEditor(g.types, g.edges, FALSE)

\* Nothing has been run yet: the user is still setting the nodes up.
BeforeEpisode == lastEvent = NoEvent

\* The user chooses the mode of the Transform nodes, clicks Execute once and then
\* leaves the editor alone; every HTTP call is answered or fails, in any order.
NextEpisode ==
  \/ \E id \in NodeIds, mode \in {"transform", "create"} :
       BeforeEpisode /\ HandleModeChange(id, mode) /\ UNCHANGED hookVars
  \/ BeforeEpisode /\ ExecuteFlow /\ UNCHANGED hookVars
  \/ ExecutingTimeout /\ UNCHANGED hookVars
  \/ Tick /\ UNCHANGED hookVars
  \/ \E id \in NodeIds :
       \/ TransformTriggerEffect(id) /\ UNCHANGED hookVars
       \/ TransformInputEffect(id) /\ UNCHANGED hookVars
       \/ RequestTriggerEffect(id) /\ UNCHANGED hookVars
       \/ \E v \in RespValues : RequestComplete(id, [threw |-> FALSE, value |-> v]) /\ UNCHANGED hookVars
       \/ RequestComplete(id, [threw |-> TRUE, value |-> Undefined]) /\ UNCHANGED hookVars
       \/ ResponseEffect(id) /\ UNCHANGED hookVars

SpecEpisode == InitEpisode /\ [][NextEpisode]_vars

\* React runs the effects of a committed render, and every HTTP call completes.
EpisodeFairness ==
  /\ \A id \in NodeIds :
       /\ WF_vars(TransformTriggerEffect(id) /\ UNCHANGED hookVars)
       /\ WF_vars(TransformInputEffect(id) /\ UNCHANGED hookVars)
       /\ WF_vars(RequestTriggerEffect(id) /\ UNCHANGED hookVars)
       /\ WF_vars(ResponseEffect(id) /\ UNCHANGED hookVars)
       /\ WF_vars(\E res \in [threw : BOOLEAN, value : RespValues \cup {Undefined}] :
                     RequestComplete(id, res) /\ UNCHANGED hookVars)

SpecEpisodeFair == SpecEpisode /\ EpisodeFairness


\* ------------------------------------------- loading a definition with a bad edge

\* The PUT handler stores the edges it is sent as they are, and the draft slot is
\* plain localStorage: the stored definition of f1 has, beside the edge from a to
\* b, an edge from a node that is not among its nodes, and so has the draft.
DanglingEdges == SaveEdges \cup {Edge("gone", "b", "in")}

DanglingGraph == StringifyGraph(CleanNodeDataForSave(StoredNodes("return {x: 1}")), DanglingEdges)

DanglingDraft == DraftOf(StoredNodes("throw new Error()"), DanglingEdges, 1)

InitDangling ==
  /\ definitions = CreateDefinition({}, 1, OpenFlow, DanglingGraph, 1)
  /\ flows = {[id |-> OpenFlow, name |-> "n1"]}
  /\ journeys = {}
  /\ usedIds = {OpenFlow}
  /\ nextId = 2
  /\ req = [c \in Clients |-> Idle]
  /\ putLog = [f \in FlowIds |-> IF f = OpenFlow THEN <<1>> ELSE <<>>]
  /\ InitGraphStore(NoTypes, {}, FALSE)
  /\ \/ InitAutoSave(NoDraft, "get", 1 :> 1)
     \/ \E time \in {0, 1} : InitAutoSave(DanglingDraft, "get", 1 :> time)

SpecDangling == InitDangling /\ [][NextLoad]_vars


\* --------------------------------------- a new flow, edited, viewed and restored

\* The flow f1 as POST /api/flows created it: its only definition is the empty
\* graph, version 1, which no PUT has returned. No draft is in the slot.
InitQuiet ==
  /\ definitions = CreateDefinition({}, 1, OpenFlow, NoGraph, 1)
  /\ flows = {[id |-> OpenFlow, name |-> "n1"]}
  /\ journeys = {}
  /\ usedIds = {OpenFlow}
  /\ nextId = 2
  /\ req = [c \in Clients |-> Idle]
  /\ putLog = [f \in FlowIds |-> <<>>]
  /\ InitGraphStore(NoTypes, {}, FALSE)
  /\ InitAutoSave(NoDraft, "get", 1 :> 1)

\* The user adds the Transform node a, saves by hand, views the versions,
\* restores one or leaves; every request is answered.
NextQuiet ==
  \/ LoadSucceed
  \/ OnAddNode("a", "transform")
  \/ SaveTransformTrigger("a")
  \/ SaveTransformInput("a")
  \/ AutoSaveEffect
  \/ \E t \in timers : TimerFire(t)
  \/ ManualSave
  \/ \E p \in puts : SaveSucceed(p)
  \/ \E version \in definitions : VersionSelect(version)
  \/ RestoreVersion
  \/ ExitViewMode
  \/ SaveTick

SpecQuiet == InitQuiet /\ [][NextQuiet]_vars


\* ------------------------------------------------------------ properties

\* C1: PUT requests on one flowId that do not overlap, starting with no stored
\* definition of that flow, return the versions 1, 2, 3, ... in this order.
C1_SequentialVersions ==
  \A f \in FlowIds : \A i \in 1..Len(putLog[f]) : putLog[f][i] = i

\* Three PUT requests on one flow have returned.
C1_Witness == \E f \in FlowIds : putLog[f] = <<1, 2, 3>>

\* C2: whatever the overlap of the writers (PUT with PUT, or the flow-creating POST
\* with a PUT), no two stored definitions of one flowId carry the same version.
C2_NoVersionReuse ==
  \A d, e \in definitions : (d.flowId = e.flowId /\ d.version = e.version) => d = e

\* C3, as the specification states it: no operation edits or removes a stored
\* definition.
C3_NeverRemoved == [][\A d \in definitions : d \in definitions']_vars

\* C3, amended: a stored definition is never edited, and it is removed only by the
\* last step of DELETE /api/flows/{id} on its own flow, which removes every
\* definition of that flow.
C3_RemovedOnlyWithFlow ==
  [][\A d \in definitions :
       \/ d \in definitions'
       \/ /\ \E c \in Clients : /\ req[c].pc = "deleteMany"
                                /\ req[c].flowId = d.flowId
                                /\ req'[c].pc = "idle"
          /\ DefsOf(definitions', d.flowId) = {}]_vars

\* A flow that had a definition returned by PUT has been deleted with its
\* definitions, while a definition of another flow is still stored.
C3_Witness ==
  \E g \in FlowIds :
    /\ g \in usedIds /\ ~(\E f \in flows : f.id = g)
    /\ putLog[g] # <<>>
    /\ DefsOf(definitions, g) = {}
    /\ definitions # {}
    /\ AllIdle

\* The step is a run of a node's executor started by its trigger effect.
TriggerRun ==
  /\ lastEvent' # lastEvent
  /\ lastEvent'.kind \in {"transform", "send"}
  /\ lastEvent'.by = "trigger"

\* C4: for a Request or Transform node and a trigger token t, the trigger effect
\* starts the node's run (a code evaluation, an HTTP call) at most once while
\* triggerExecution is t, whatever else changes in the node's data.
C4_OncePerToken == [][TriggerRun => ~ran[lastEvent'.node]]_vars

\* The kinds of value the validation of handleTransform accepts.
ValidTags == {"null", "string", "number", "boolean", "object", "array"}

\* The step is a run that ended well and handed its value to the router.
Delivery ==
  /\ lastEvent' # lastEvent
  /\ ~lastEvent'.threw
  /\ \/ lastEvent'.kind = "request"
     \/ lastEvent'.kind = "transform" /\ lastEvent'.tag \in ValidTags

\* The value the run of the step produced: the node's result or response.
Delivered ==
  IF lastEvent'.kind = "transform" THEN nodes'[lastEvent'.node].data.result
  ELSE nodes'[lastEvent'.node].data.response

\* The ports of target n that the edges from the node of the step are attached to.
PortsOf(n) == {e.targetHandle : e \in {x \in edges : x.source = lastEvent'.node /\ x.target = n}}

\* h is the map of the own properties of the plain object v, each turned to a string.
IsStringMapOf(h, v) ==
  /\ h.tag = "object"
  /\ {f[1] : f \in h.fields} = {f[1] : f \in v.fields}
  /\ \A f \in h.fields :
       /\ f[2].tag = "string"
       /\ \E g \in v.fields : g[1] = f[1] /\ g[2].lit = f[2].lit

\* C5: a delivery of v, from a Transform or a Request node, to a target wired on
\* its headers port sets the target's headersInput to the map of v's properties
\* as strings when v is a plain object, and to the empty map for any other v.
C5_HeadersCoerced ==
  [][Delivery =>
       \A n \in DOMAIN nodes :
         "headers" \in PortsOf(n) =>
           IF Delivered.tag = "object"
             THEN IsStringMapOf(nodes'[n].data.headersInput, Delivered)
             ELSE nodes'[n].data.headersInput = Obj({})]_vars

\* C6: a delivery of v, from a Transform or a Request node, sets bodyInput to v
\* itself on a target wired on its body port and not on its headers port, and sets
\* inputData to v on a target wired on default ports only, and response to v as
\* well when that target is a Response node.
C6_BodyAndDefaultVerbatim ==
  [][Delivery =>
       \A n \in DOMAIN nodes :
         /\ ("body" \in PortsOf(n) /\ "headers" \notin PortsOf(n))
              => nodes'[n].data.bodyInput = Delivered
         /\ PortsOf(n) = {"in"}
              => /\ nodes'[n].data.inputData = Delivered
                 /\ nodes'[n].type = "response" => nodes'[n].data.response = Delivered]_vars

\* A Request node has answered with a value that is no string, which is now the
\* bodyInput of its body target and the inputData of its default target.
C6_Witness ==
  /\ lastEvent.kind = "request" /\ lastEvent.node = "a" /\ ~lastEvent.threw
  /\ nodes["a"].data.response = Num("0")
  /\ Edge("a", "b", "body") \in edges /\ Edge("a", "b", "headers") \notin edges
  /\ nodes["b"].data.bodyInput = Num("0")
  /\ Edge("a", "c", "in") \in edges /\ Edge("a", "c", "body") \notin edges
  /\ nodes["c"].data.inputData = Num("0")

\* C7: every delivery, from a Transform or a Request node, writes the trigger
\* token of the delivery (Date.now()) into triggerExecution of every target.
C7_DeliveryStampsToken ==
  [][Delivery =>
       \A n \in DOMAIN nodes :
         PortsOf(n) # {} => nodes'[n].data.triggerExecution = now]_vars

\* The step is a run that failed: the code threw or gave a value of no accepted
\* kind, or the HTTP call failed.
FailedRun ==
  /\ lastEvent' # lastEvent
  /\ \/ lastEvent'.kind = "transform" /\ (lastEvent'.threw \/ lastEvent'.tag \notin ValidTags)
     \/ lastEvent'.kind = "request" /\ lastEvent'.threw

\* C8: a failed run leaves inputData, headersInput, bodyInput, response and
\* triggerExecution of every node as they were: nothing is delivered, and a failing
\* Request node stores no response.
C8_FailedRunChangesNothing ==
  [][FailedRun =>
       \A n \in DOMAIN nodes :
         /\ nodes'[n].data.inputData = nodes[n].data.inputData
         /\ nodes'[n].data.headersInput = nodes[n].data.headersInput
         /\ nodes'[n].data.bodyInput = nodes[n].data.bodyInput
         /\ nodes'[n].data.response = nodes[n].data.response
         /\ nodes'[n].data.triggerExecution = nodes[n].data.triggerExecution]_vars

\* The call of a Request node has failed after an earlier one delivered a value
\* to the node wired to it: the target still holds that value.
C8_Witness ==
  /\ lastEvent.kind = "request" /\ lastEvent.threw
  /\ \E n \in DOMAIN nodes :
       /\ Edge(lastEvent.node, n, "in") \in edges
       /\ nodes[n].data.inputData # Undefined
       /\ nodes[n].data.inputData = nodes[lastEvent.node].data.response

\* The step is a run of executeFlow.
Executed == lastEvent' # lastEvent /\ lastEvent'.kind = "execute"

\* The nodes that are the target of no edge.
NoIncoming == {n \in DOMAIN nodes : \A e \in edges : e.target # n}

\* C9: on a graph with a node that is the target of no edge, executeFlow writes
\* one token (Date.now()) into triggerExecution of every such node and changes
\* nothing else of it, no other node, and no edge.
C9_EntryNodesStamped ==
  [][(Executed /\ NoIncoming # {}) =>
       /\ \A n \in NoIncoming :
            nodes'[n] = [nodes[n] EXCEPT !.data.triggerExecution = now]
       /\ \A n \in DOMAIN nodes \ NoIncoming : nodes'[n] = nodes[n]
       /\ DOMAIN nodes' = DOMAIN nodes
       /\ edges' = edges]_vars

\* executeFlow has just stamped two entry nodes with one token and left the third
\* node, the target of an edge, without one.
C9_Witness ==
  /\ lastEvent.kind = "execute"
  /\ \E n, m, k \in DOMAIN nodes :
       /\ n # m
       /\ \A e \in edges : e.target # n /\ e.target # m
       /\ nodes[n].data.triggerExecution # 0
       /\ nodes[m].data.triggerExecution = nodes[n].data.triggerExecution
       /\ \E e \in edges : e.target = k
       /\ nodes[k].data.triggerExecution = 0

\* C10: on a graph whose every node is the target of an edge, executeFlow reports
\* NoEntryNodes, stamps no token and changes nothing in the Graph Store, and no
\* node executor is started.
C10_NoEntryNodesReported ==
  [][(Executed /\ NoIncoming = {}) =>
       /\ executionError' = NoEntryNodes
       /\ ~isExecuting'
       /\ nodes' = nodes /\ edges' = edges
       /\ pending' = pending /\ inflight' = inflight]_vars

\* executeFlow has reported NoEntryNodes on a graph that is not empty; no node has
\* a token.
C10_Witness ==
  /\ lastEvent.kind = "execute"
  /\ executionError = NoEntryNodes
  /\ DOMAIN nodes # {}
  /\ \A n \in DOMAIN nodes : nodes[n].data.triggerExecution = 0 /\ ~pending[n].trig

\* ---- C11
\* In Start a -> Transform b -> Response c, once an execution episode has started
\* at a (executeFlow has stamped the entry node a) and b is left in mode create
\* with the code "return {x: 1}", b's result and c's response eventually are {x: 1}.
EpisodeStarted == nodes["a"].data.triggerExecution # 0

C11_StartReachesResponse ==
  EpisodeStarted ~>
    \/ nodes["b"].data.mode # "create"
    \/ nodes["b"].data.code # "return {x: 1}"
    \/ /\ nodes["b"].data.result = Obj({<<"x", Num("1")>>})
       /\ nodes["c"].data.response = Obj({<<"x", Num("1")>>})

\* The step issues an HTTP call of node n from its trigger effect while n's checkbox
\* is set and the Transform's delivery {"Authorization": "Bearer t"} is in
\* data.headersInput.
AuthHeaders == Obj({<<"Authorization", Str("Bearer t")>>})

SendAfterDelivery(n) ==
  /\ lastEvent' # lastEvent
  /\ lastEvent'.kind = "send" /\ lastEvent'.node = n /\ lastEvent'.by = "trigger"
  /\ useInputAsHeaders[n]
  /\ nodes[n].data.headersInput = AuthHeaders

\* ---- C12
\* Every HTTP request a Request node issues from its trigger effect, with
\* useInputAsHeaders set and the delivered headers {"Authorization": "Bearer t"} in
\* its headersInput, carries Authorization: Bearer t; none is sent with the headers
\* text the node had before the delivery.
C12_RequestCarriesDeliveredHeaders ==
  [][\A n \in DOMAIN nodes : SendAfterDelivery(n) => sentHeaders'[n] = AuthHeaders]_vars

\* The transient (runtime) fields of a node are all absent.
PersistShape(ns) ==
  \A n \in DOMAIN ns :
    /\ ns[n].data.inputData = Undefined /\ ns[n].data.triggerExecution = 0
    /\ ns[n].data.result = Undefined /\ ns[n].data.response = Undefined
    /\ ns[n].data.status = 0 /\ ns[n].data.statusText = ""
    /\ ns[n].data.headersInput = Undefined /\ ns[n].data.bodyInput = Undefined

\* ---- C13
\* Every write to the local draft slot or to the Version Store carries
\* persist-shape nodes: the draft in the slot, the body of every PUT in flight
\* (autosave, manual save, restore, empty definition) and every stored definition
\* have no transient field with a value on any node.
C13_WritesArePersistShape ==
  /\ PersistShape(draft.nodes)
  /\ \A p \in puts : PersistShape(p.content.nodes)
  /\ \A d \in definitions : PersistShape(d.content.nodes)

\* The nodes without their transient fields.
StripTransient(ns) ==
  [n \in DOMAIN ns |->
     [ns[n] EXCEPT !.data.inputData = Undefined, !.data.triggerExecution = 0,
                   !.data.result = Undefined, !.data.response = Undefined,
                   !.data.status = 0, !.data.statusText = "",
                   !.data.headersInput = Undefined, !.data.bodyInput = Undefined]]

\* The step is the auto-save effect calling scheduleAutoSave(nodes, edges).
ScheduleCall ==
  /\ savePending /\ ~savePending'
  /\ flowInitialized /\ ~isViewingOldVersion /\ ~isLoading

\* The transient-stripped nodes and the edges are those of the last-known snapshot.
SameAsLastKnown ==
  /\ lastKnownData # NoText
  /\ StripTransient(nodes) = StripTransient(lastKnownData.nodes)
  /\ edges = lastKnownData.edges

\* ---- C14
\* A scheduleAutoSave call whose transient-stripped nodes and edges equal the
\* last-known snapshot writes no draft, leaves hasUnsavedChanges as it was, neither
\* starts nor restarts the timer and issues no PUT.
C14_UnchangedDataIsNoOp ==
  [][(ScheduleCall /\ SameAsLastKnown) =>
       /\ draft' = draft /\ hasUnsavedChanges' = hasUnsavedChanges
       /\ timers' = timers /\ saveTimeoutRef' = saveTimeoutRef
       /\ puts' = puts]_vars

\* ---- C20
\* After markDataAsKnown (a load, a restore, leaving Viewing mode) set the
\* baseline, a scheduleAutoSave call with the same persist-shape nodes and edges
\* writes no draft and starts no timer: without an edit no version is on its way.
C20_NoSaveAfterMarkDataAsKnown ==
  [][(ScheduleCall /\ knownBy = "mark" /\ SameAsLastKnown) =>
       (draft' = draft /\ timers' = timers)]_vars

\* The PUTs the step issues.
Issued == puts' \ puts

\* ---- C15
\* Debounce: at most one timer is pending at any time and it is the timer of the
\* last changed scheduleAutoSave call (every earlier one is cancelled); a PUT that
\* a timer issues is issued one quiet period after that last call, carries its
\* nodes and edges, and leaves no timer behind to issue another one.
C15_DebounceLastCallWins ==
  /\ [](Cardinality(timers) <= 1 /\ timers \subseteq {saveTimeoutRef})
  /\ [][\A p \in Issued :
          p.by = "auto" =>
            /\ saveTimeoutRef \in timers
            /\ now = saveTimeoutRef.deadline
            /\ StripTransient(p.content.nodes) = StripTransient(saveTimeoutRef.nodes)
            /\ p.content.edges = saveTimeoutRef.edges
            /\ timers' = {}]_vars

\* The server definition was loaded, then the code was changed and changed back
\* within one quiet period; one quiet period later the only PUT carries the code
\* of the last call.
C15_Witness ==
  /\ updatedAt[1] = 1 /\ nextId = 2
  /\ now = 1 + Delay
  /\ puts = {Put("auto", StoredGraph)}
  /\ timers = {}

\* ---- C16
\* While the editor is in Viewing mode, or while a flow load is in flight, no
\* autosave and no manual save is issued: a PUT issued then is the one of Restore
\* (or the empty definition of a failed load), also when a debounce timer scheduled
\* before Viewing was entered fires during Viewing.
C16_NoSaveWhileViewingOrLoading ==
  [][\A p \in Issued :
       (isViewingOldVersion \/ isLoading) => p.by \notin {"auto", "manual"}]_vars

\* The PUTs of saveToServer that the step answers.
AnsweredSaves == {p \in puts \ puts' : p.by \in {"auto", "manual"}}

\* ---- C17
\* When the PUT of saveToServer succeeds (the server created the version), the
\* local draft is removed and hasUnsavedChanges becomes false. When it fails, the
\* draft and hasUnsavedChanges are left exactly as they were, the error is
\* reported, and no retry is scheduled: no timer is started and no PUT is issued.
C17_SaveOutcome ==
  [][AnsweredSaves # {} =>
       IF nextId' # nextId
         THEN draft' = NoDraft /\ hasUnsavedChanges' = FALSE
         ELSE /\ draft' = draft /\ hasUnsavedChanges' = hasUnsavedChanges
              /\ executionError' = "Auto-save failed"
              /\ timers' = timers /\ saveTimeoutRef' = saveTimeoutRef
              /\ Issued = {}]_vars

\* The autosave of an edit failed: the draft of the edit is in the slot,
\* hasUnsavedChanges is true, the error is shown, nothing is pending.
C17_Witness ==
  /\ executionError = "Auto-save failed"
  /\ draft # NoDraft /\ hasUnsavedChanges
  /\ lastSave # NoText
  /\ timers = {} /\ puts = {} /\ nextId = 2

\* The step is the end of a flow open whose GET was answered.
LoadStep == loadPc = "get" /\ loadPc' = "done"

\* The definition the GET returns.
ServerDoc == FindOneLatest(definitions, OpenFlow)

\* ---- C18
\* On flow open with a local draft of timestamp T1 and a server definition with
\* updatedAt T2, the Graph Store is loaded from the draft if and only if T1 > T2;
\* if T1 <= T2 it is loaded from the server definition and the draft is removed.
C18_DraftPrecedence ==
  [][(LoadStep /\ draft # NoDraft) =>
       IF draft.timestamp > updatedAt[ServerDoc.id]
         THEN nodes' = draft.nodes /\ edges' = draft.edges
         ELSE /\ nodes' = ServerDoc.content.nodes /\ edges' = ServerDoc.content.edges
              /\ draft' = NoDraft]_vars

\* A flow was opened whose draft is newer than the server definition and differs
\* from it: the Graph Store holds the draft's nodes.
C18_Witness ==
  /\ loadPc = "done" /\ knownBy = "mark"
  /\ draft # NoDraft /\ draft.timestamp > updatedAt[ServerDoc.id]
  /\ nodes = draft.nodes
  /\ original = [nodes |-> ServerDoc.content.nodes, edges |-> ServerDoc.content.edges]
  /\ draft.nodes # ServerDoc.content.nodes

\* ---- C19
\* After a flow open in which the local draft wins over the server definition,
\* hasUnsavedChanges() is true and the draft is still in the local slot; from then
\* on both stay so until a server save succeeds or the page is left.
C19_DraftWinKeepsUnsaved ==
  /\ [][(LoadStep /\ draft # NoDraft /\ draft.timestamp > updatedAt[ServerDoc.id]) =>
          (hasUnsavedChanges' /\ draft' = draft)]_vars
  /\ [][(loadPc = "done" /\ hasUnsavedChanges /\ draft # NoDraft) =>
          \/ hasUnsavedChanges' /\ draft' # NoDraft
          \/ nextId' # nextId
          \/ loadPc' # "done"]_vars

\* The step is one of the editing entry points of FlowContent, or executeFlow.
EntryPointStep ==
  /\ lastEvent' # lastEvent
  /\ lastEvent'.kind \in {"remove", "connect", "add", "execute"}

\* The step is the auto-save effect of a render.
AutoSaveStep == savePending /\ ~savePending'

AnsweredRestores == {p \in puts \ puts' : p.by = "restore"}

\* ---- C22
\* Live -> select a version (once or several times in a row) -> ExitView: the live
\* nodes and edges are set aside at the first selection and kept while Viewing;
\* ExitView puts exactly them back into the Graph Store, the editor is Live again,
\* no request is sent and no version is created.
C22_ExitViewRestoresLive ==
  /\ [][(~isViewingOldVersion /\ isViewingOldVersion') =>
          original' = [nodes |-> nodes, edges |-> edges]]_vars
  /\ [][(isViewingOldVersion /\ isViewingOldVersion') => original' = original]_vars
  /\ [][(isViewingOldVersion /\ ~isViewingOldVersion' /\ AnsweredRestores = {}) =>
          /\ nodes' = original.nodes /\ edges' = original.edges
          /\ viewingVersion' = NoDoc
          /\ puts' = puts /\ definitions' = definitions /\ draft' = draft]_vars

\* The user edited the flow, viewed a version and left: the Graph Store holds the
\* edited nodes again, which no stored definition has.
C22_Witness ==
  /\ ~isViewingOldVersion /\ viewingVersion = NoDoc /\ loadPc = "done"
  /\ knownBy = "mark" /\ savePending
  /\ nodes = original.nodes /\ edges = original.edges
  /\ \A d \in definitions : d.content.nodes # original.nodes


\* C23: a Restore answered while its snapshot S is still the one viewed appends
\* exactly one definition with S's nodes and edges and the latest version plus 1
\* and changes no stored definition; when it succeeds the editor is Live with S's
\* content in the Graph Store and as the autosave baseline, and no save is issued
\* while that baseline stands (no changed content has been handed to
\* scheduleAutoSave since); when it fails the editor stays in Viewing and no
\* definition is created.
RestoreCreated(p) ==
  LET latest == FindOneLatest(definitions, OpenFlow)
      created == definitions' \ definitions
  IN  /\ definitions \subseteq definitions'
      /\ Cardinality(created) = 1
      /\ \A d \in created : /\ d.flowId = OpenFlow
                            /\ d.content = p.content
                            /\ d.version = NewVersion(latest)

RestoreLeavesLive(p) ==
  /\ ~isViewingOldVersion' /\ viewingVersion' = NoDoc
  /\ StripTransient(nodes') = StripTransient(p.content.nodes)
  /\ edges' = p.content.edges
  /\ lastKnownData' = StringifyGraph(CleanNodeDataForSave(p.content.nodes), p.content.edges)
  /\ draft' = NoDraft /\ ~hasUnsavedChanges'

RestoreFailed ==
  /\ definitions' = definitions
  /\ isViewingOldVersion' = isViewingOldVersion
  /\ viewingVersion' = viewingVersion
  /\ nodes' = nodes /\ edges' = edges

C23_RestoreAppendsAndReturnsLive ==
  /\ [][\A p \in AnsweredRestores :
          (isViewingOldVersion /\ viewingVersion.content = p.content) =>
             IF nextId' # nextId THEN RestoreCreated(p) /\ RestoreLeavesLive(p)
                                 ELSE RestoreFailed]_vars
  /\ [][knownBy = "restore" => \A p \in Issued : p.by = "restore"]_vars

\* The step is a run of handleTransform on a Transform node that is in create mode.
CreateModeRun ==
  /\ lastEvent' # lastEvent
  /\ lastEvent'.kind = "transform"
  /\ nodes[lastEvent'.node].data.mode = "create"

\* C24: the code of a Transform node in create mode is evaluated only by the
\* Transform button or by its trigger effect for a token it has not run for yet:
\* never by the input effect, and never again for the same token because its
\* inputData changed.
C24_CreateModeIgnoresInput ==
  [][CreateModeRun =>
       \/ lastEvent'.by = "click"
       \/ lastEvent'.by = "trigger" /\ ~ran[lastEvent'.node]]_vars

\* C25: every body GET /flow-definitions/{flowId}/versions may answer with holds
\* only definitions of that flowId, at most 50 of them and the highest versions
\* stored, in strictly descending order of version; after version 1 and then
\* version 2 were saved it is [v2, v1].
StrictlyDescending(l) == \A i, j \in 1..Len(l) : i < j => l[i].version > l[j].version

HighestVersions(l, f) ==
  \A d \in DefsOf(definitions, f) :
     (\A i \in 1..Len(l) : l[i] # d) => \A i \in 1..Len(l) : d.version <= l[i].version

C25_VersionsNewestFirst ==
  \A f \in FlowIds : \A l \in FindVersions(definitions, f) :
     /\ \A i \in 1..Len(l) : l[i] \in definitions /\ l[i].flowId = f
     /\ Len(l) <= VersionsLimit
     /\ Len(l) = VersionsLimit \/ Len(l) = Cardinality(DefsOf(definitions, f))
     /\ HighestVersions(l, f)
     /\ StrictlyDescending(l)
     /\ putLog[f] = <<1, 2>> /\ Cardinality(DefsOf(definitions, f)) = 2
          => l[1].version = 2 /\ l[2].version = 1

\* C26: once a flow has been loaded, from the server definition or from the local
\* draft, every edge in the Graph Store joins two nodes of the Graph Store.
C26_NoDanglingEdgeAfterLoad ==
  (loadPc = "done" /\ flowInitialized) =>
     \A e \in edges : e.source \in DOMAIN nodes /\ e.target \in DOMAIN nodes

\* Every effect has run and every HTTP call has been answered.
EpisodeSettled == Quiescent /\ \A n \in DOMAIN nodes : inflight[n] = 0

\* C27: on an acyclic graph of Request, Transform and Response nodes whose HTTP
\* calls all complete, an execution started by executeFlow reaches a state where
\* no effect is pending and no call is in flight, whatever the order of the
\* branches and of the responses, and from there the Graph Store changes no more.
C27_EpisodeSettles ==
  /\ ~BeforeEpisode ~> EpisodeSettled
  /\ [][(~BeforeEpisode /\ EpisodeSettled) => (nodes' = nodes /\ EpisodeSettled')]_vars

\* An execution has settled after a Request node was answered and a Transform
\* node downstream of another node has run.
C27_Witness ==
  /\ ~BeforeEpisode /\ EpisodeSettled
  /\ \E n \in DOMAIN nodes : nodes[n].type = "request" /\ nodes[n].data.status = 200
  /\ nodes["b"].data.triggerExecution # 0
  /\ \E n \in DOMAIN nodes : nodes[n].type = "transform" /\ nodes[n].data.result # Undefined

\* The transient-stripped nodes or the edges of the Graph Store are not those of
\* the latest definition on the server.
DiffersFromServer ==
  \/ StripTransient(nodes) # StripTransient(ServerDoc.content.nodes)
  \/ edges # ServerDoc.content.edges

\* C28: in Live mode, while the content that an edit of this session gave the
\* Graph Store (the content scheduleAutoSave saw last) differs from the latest
\* definition on the server, the draft slot holds that content and
\* hasUnsavedChanges is true, also after an earlier save has succeeded.
C28_UnsavedEditKeepsDraft ==
  (/\ loadPc = "done" /\ flowInitialized /\ ~isViewingOldVersion /\ Settled
   /\ knownBy = "schedule" /\ SameAsLastKnown
   /\ DiffersFromServer)
    => /\ draft # NoDraft
       /\ StripTransient(draft.nodes) = StripTransient(nodes) /\ draft.edges = edges
       /\ hasUnsavedChanges

\* No debounce timer is pending and no PUT is in flight: the quiet period after
\* the last edit is over, the timer has fired and its save has been answered.
QuietAndSaved ==
  /\ loadPc = "done" /\ flowInitialized /\ ~isViewingOldVersion /\ Settled
  /\ timers = {} /\ puts = {}

\* C29: when every request succeeds, whatever the user edited, saved, viewed,
\* restored and left before, once the editor is Live with no debounce timer
\* pending and no save in flight, the latest definition on the server has the
\* transient-stripped nodes and the edges of the Graph Store.
C29_QuietMeansSaved == QuietAndSaved => ~DiffersFromServer

\* The PUTs of the empty definition that are answered in this step.
AnsweredEmpty == {p \in puts \ puts' : p.by = "empty"}

\* C30: the open of a flow stores a definition only when the server holds none
\* for that flow: when the GET failed for a flow that has definitions, the PUT of
\* the empty definition creates no version, so the definition that was current
\* stays current and is not newer than a draft loaded as fallback.
C30_OpenCreatesOnlyFirstVersion ==
  [][AnsweredEmpty # {} =>
       \/ DefsOf(definitions, OpenFlow) = {}
       \/ /\ definitions' = definitions
          /\ FindOneLatest(definitions', OpenFlow) = ServerDoc]_vars
====
